---- MODULE Spec2Model ----
(***************************************************************************)
(* A model of the flowtuner blog back end: the webhook ingestion pipeline  *)
(* (src/app/api/webhook/route.ts), the file-backed post store              *)
(* (src/lib/blog.ts) and the mapping-scheme translation script.            *)
(*                                                                         *)
(* Strings are sequences of one-character strings, so that the string      *)
(* operations of the code (startsWith, substring, template literals) are   *)
(* computed and not assumed.                                               *)
(***************************************************************************)
EXTENDS Integers, Sequences, FiniteSets, TLC

(***************************************************************************)
(* Bounds of the model.                                                    *)
(***************************************************************************)
\* The clock runs over MaxWindows full rate-limit windows.
MaxWindows == 2
\* Requests one client makes inside one window (more than RATE_LIMIT).
MaxSeen == 12
\* The longest of the short titles slugs are made of.
MaxTitleLen == 3

(***************************************************************************)
(* Generic helpers.                                                        *)
(***************************************************************************)
Min(a, b) == IF a <= b THEN a ELSE b

EmptyMap == [x \in {} |-> x]

\* The map without the keys ks.
MapRemove(m, ks) == [x \in (DOMAIN m) \ ks |-> m[x]]

\* Map.prototype.set / an object property assignment.
MapSet(m, k, v) == [x \in (DOMAIN m) \cup {k} |-> IF x = k THEN v ELSE m[x]]

(***************************************************************************)
(* Rate limiter, route.ts 5-24.                                            *)
(***************************************************************************)
RATE_LIMIT == 10
RATE_LIMIT_WINDOW == 60 * 1000

\* The client identifiers (the ip of POST, route.ts 407-410).
Clients == {"10.0.0.1", "unknown"}

\* The instants Date.now() returns: the start of each window, and the
\* millisecond after it, so that now = resetTime and now = resetTime + 1
\* both occur.
Times == {w * RATE_LIMIT_WINDOW + e : w \in 0..MaxWindows, e \in 0..1}

VARIABLES
    now,            \* Date.now()
    rateLimitMap,   \* Map<string, {count, resetTime}>
    gWinStart,      \* per client: when its current window began, -1: none yet
    gSeen,          \* per client: requests made in the current window
    gAdmitted,      \* per client: requests admitted in the current window
    gPrevFull,      \* per client: the previous window saw a rejection
    posts,          \* slug -> the parsed content of content/posts/<slug>.json
    mappingFile,    \* content/slug-mapping.json: canonical slug -> (locale -> slug)
    gLocaleOf,      \* slug -> the locale of the record last written there
    env,            \* process.env: WEBHOOK_SECRET, GITHUB_TOKEN, OPENAI_API_KEY
    pc,             \* per handler: where its POST stands
    req,            \* per handler: the request's headers
    loc,            \* per handler: the locals of POST and of the calls it is in
    resp,           \* per handler: the response returned
    eff,            \* per handler: what this request did so far
    scriptPc,       \* where main() of the translation script stands
    originalPost,   \* main(): the canonical post it read
    slugMapping,    \* main(): its copy of the slug mapping
    call            \* the last library call made: its function, argument and result

rateVars == <<now, rateLimitMap, gWinStart, gSeen, gAdmitted, gPrevFull>>
storeVars == <<posts, mappingFile, gLocaleOf>>
pipeVars == <<env, pc, req, loc, resp, eff>>
scriptVars == <<scriptPc, originalPost, slugMapping>>
libVars == <<call>>
vars == <<now, rateLimitMap, gWinStart, gSeen, gAdmitted, gPrevFull,
          posts, mappingFile, gLocaleOf, env, pc, req, loc, resp, eff,
          scriptPc, originalPost, slugMapping, call>>

\* A mutant of checkRateLimit: the ceiling is compared with > instead of >=.
checkRateLimitOffByOne(map, t, ip) ==
    IF ip \notin DOMAIN map \/ t > map[ip].resetTime
    THEN [ok |-> TRUE,
          map |-> MapSet(map, ip, [count |-> 1, resetTime |-> t + RATE_LIMIT_WINDOW])]
    ELSE IF map[ip].count > RATE_LIMIT
    THEN [ok |-> FALSE, map |-> map]
    ELSE [ok |-> TRUE,
          map |-> MapSet(map, ip, [map[ip] EXCEPT !.count = @ + 1])]

\* A mutant of checkRateLimit: an admitted request inside the window is not
\* counted.
checkRateLimitNoIncrement(map, t, ip) ==
    IF ip \notin DOMAIN map \/ t > map[ip].resetTime
    THEN [ok |-> TRUE,
          map |-> MapSet(map, ip, [count |-> 1, resetTime |-> t + RATE_LIMIT_WINDOW])]
    ELSE IF map[ip].count >= RATE_LIMIT
    THEN [ok |-> FALSE, map |-> map]
    ELSE [ok |-> TRUE, map |-> map]

\* A mutant of checkRateLimit: a rejected request starts the window again.
checkRateLimitRejectRestarts(map, t, ip) ==
    IF ip \notin DOMAIN map \/ t > map[ip].resetTime
    THEN [ok |-> TRUE,
          map |-> MapSet(map, ip, [count |-> 1, resetTime |-> t + RATE_LIMIT_WINDOW])]
    ELSE IF map[ip].count >= RATE_LIMIT
    THEN [ok |-> FALSE,
          map |-> MapSet(map, ip, [map[ip] EXCEPT !.resetTime = t + RATE_LIMIT_WINDOW])]
    ELSE [ok |-> TRUE,
          map |-> MapSet(map, ip, [map[ip] EXCEPT !.count = @ + 1])]

\* checkRateLimit(ip) at time t on the map: the boolean it returns and the
\* map it leaves.
checkRateLimit(map, t, ip) ==
    IF ip \notin DOMAIN map \/ t > map[ip].resetTime
    THEN [ok |-> TRUE,
          map |-> MapSet(map, ip, [count |-> 1, resetTime |-> t + RATE_LIMIT_WINDOW])]
    ELSE IF map[ip].count >= RATE_LIMIT
    THEN [ok |-> FALSE, map |-> map]
    ELSE [ok |-> TRUE,
          map |-> MapSet(map, ip, [map[ip] EXCEPT !.count = @ + 1])]

\* The window of client c is open: it began and has not expired.
GhostInWindow(c) ==
    gWinStart[c] # -1 /\ now <= gWinStart[c] + RATE_LIMIT_WINDOW

\* The bookkeeping of one request of client c with outcome ok: what the
\* client saw, independent of the limiter's own record.
GhostRequest(c, ok) ==
    IF GhostInWindow(c)
    THEN /\ gSeen' = [gSeen EXCEPT ![c] = @ + 1]
         /\ gAdmitted' = [gAdmitted EXCEPT ![c] = @ + (IF ok THEN 1 ELSE 0)]
         /\ UNCHANGED <<gWinStart, gPrevFull>>
    ELSE /\ gWinStart' = [gWinStart EXCEPT ![c] = now]
         /\ gSeen' = [gSeen EXCEPT ![c] = 1]
         /\ gAdmitted' = [gAdmitted EXCEPT ![c] = IF ok THEN 1 ELSE 0]
         /\ gPrevFull' = [gPrevFull EXCEPT ![c] = gSeen[c] > RATE_LIMIT]

RateInit ==
    /\ now = 0
    /\ rateLimitMap = EmptyMap
    /\ gWinStart = [c \in Clients |-> -1]
    /\ gSeen = [c \in Clients |-> 0]
    /\ gAdmitted = [c \in Clients |-> 0]
    /\ gPrevFull = [c \in Clients |-> FALSE]

\* Time passes.
Tick ==
    /\ \E t \in Times : t > now /\ now' = t
    /\ UNCHANGED <<rateLimitMap, gWinStart, gSeen, gAdmitted, gPrevFull>>
    /\ UNCHANGED <<storeVars, pipeVars, scriptVars, libVars>>

\* One call checkRateLimit(ip).
RateRequest(ip) ==
    /\ ~(GhostInWindow(ip) /\ gSeen[ip] >= MaxSeen)
    /\ LET r == checkRateLimit(rateLimitMap, now, ip) IN
        /\ rateLimitMap' = r.map
        /\ GhostRequest(ip, r.ok)
    /\ UNCHANGED now
    /\ UNCHANGED <<storeVars, pipeVars, scriptVars, libVars>>

(***************************************************************************)
(* Strings: sequences of one-character strings.                            *)
(***************************************************************************)
LowerLetters == {"a","b","c","d","e","f","g","h","i","j","k","l","m",
                 "n","o","p","q","r","s","t","u","v","w","x","y","z"}
Digits == <<"0","1","2","3","4","5","6","7","8","9">>
DigitSet == {Digits[i] : i \in 1..10}
\* The class [a-z0-9].
LowerAlnum == LowerLetters \cup DigitSet
\* The class \s (the members the model's inputs use).
WhiteSpace == {" ", "\t", "\n"}

DigitValue(c) == CHOOSE i \in 0..9 : Digits[i + 1] = c

\* The upper-case letters and, at the same index, their lower-case forms.
UpperLetters ==
    <<"A", "B", "C", "D", "E", "F", "G", "H", "I", "J", "K", "L", "M", "N",
      "O", "P", "Q", "R", "S", "T", "U", "V", "W", "X", "Y", "Z", "Ä", "Ö",
      "Ü", "É">>
LowerForms ==
    <<"a", "b", "c", "d", "e", "f", "g", "h", "i", "j", "k", "l", "m", "n",
      "o", "p", "q", "r", "s", "t", "u", "v", "w", "x", "y", "z", "ä", "ö",
      "ü", "é">>

\* String.prototype.toLowerCase, one character.
LowerChar(c) ==
    IF \E i \in 1..Len(UpperLetters) : UpperLetters[i] = c
    THEN LowerForms[CHOOSE i \in 1..Len(UpperLetters) : UpperLetters[i] = c]
    ELSE c

ToLowerCase(s) == [i \in 1..Len(s) |-> LowerChar(s[i])]

StartsWith(s, p) == Len(s) >= Len(p) /\ SubSeq(s, 1, Len(p)) = p

\* s.substring(a) and s.substring(0, n).
SubstringFrom(s, a) == SubSeq(s, a + 1, Len(s))
SubstringTo(s, n) == SubSeq(s, 1, Min(n, Len(s)))

RECURSIVE DecStr(_)
\* The decimal digits of a natural number.
DecStr(n) == IF n < 10 THEN <<Digits[n + 1]>>
             ELSE DecStr(n \div 10) \o <<Digits[(n % 10) + 1]>>

RECURSIVE DecVal(_)
\* The number a string of digits denotes.
DecVal(s) == IF s = <<>> THEN 0
             ELSE DecVal(SubSeq(s, 1, Len(s) - 1)) * 10 + DigitValue(s[Len(s)])

\* The longest prefix of s made of digits.
RECURSIVE DigitPrefix(_)
DigitPrefix(s) == IF s = <<>> \/ Head(s) \notin DigitSet THEN <<>>
                  ELSE <<Head(s)>> \o DigitPrefix(Tail(s))

NaN == -1
\* parseInt(s) of a header value without sign or leading blanks: the digits
\* it starts with, NaN when there are none.
ParseInt(s) == IF DigitPrefix(s) = <<>> THEN NaN ELSE DecVal(DigitPrefix(s))

\* String.prototype.trim.
RECURSIVE TrimLeft(_)
TrimLeft(s) == IF s # <<>> /\ Head(s) \in WhiteSpace THEN TrimLeft(Tail(s)) ELSE s
RECURSIVE TrimRight(_)
TrimRight(s) == IF s # <<>> /\ s[Len(s)] \in WhiteSpace
                THEN TrimRight(SubSeq(s, 1, Len(s) - 1)) ELSE s
Trim(s) == TrimRight(TrimLeft(s))

\* s.replace(/[set]/g, r), r a string.
RECURSIVE ReplaceChars(_, _, _)
ReplaceChars(s, set, r) ==
    IF s = <<>> THEN <<>>
    ELSE (IF Head(s) \in set THEN r ELSE <<Head(s)>>) \o ReplaceChars(Tail(s), set, r)

\* s.replace(/[set]+/g, r): every maximal run of characters of set becomes r.
RECURSIVE ReplaceRuns(_, _, _)
ReplaceRuns(s, set, r) ==
    IF s = <<>> THEN <<>>
    ELSE IF Head(s) \in set
    THEN IF Len(s) > 1 /\ s[2] \in set
         THEN ReplaceRuns(Tail(s), set, r)
         ELSE r \o ReplaceRuns(Tail(s), set, r)
    ELSE <<Head(s)>> \o ReplaceRuns(Tail(s), set, r)

\* s.replace(/[^a-z0-9\s-]/g, '').
KeepSlugChars(s) == SelectSeq(s, LAMBDA c : c \in LowerAlnum \cup WhiteSpace \cup {"-"})

\* s.replace(/^-|-$/g, ''): one leading and one trailing hyphen go.
TrimHyphens(s) ==
    LET a == IF s # <<>> /\ Head(s) = "-" THEN Tail(s) ELSE s
    IN IF a # <<>> /\ a[Len(a)] = "-" THEN SubSeq(a, 1, Len(a) - 1) ELSE a

\* /^[a-z0-9]+(?:-[a-z0-9]+)*$/.test(s)
SlugRegexTest(s) ==
    /\ s # <<>>
    /\ \A i \in 1..Len(s) : s[i] \in LowerAlnum \cup {"-"}
    /\ s[1] # "-" /\ s[Len(s)] # "-"
    /\ \A i \in 1..(Len(s) - 1) : ~(s[i] = "-" /\ s[i + 1] = "-")

\* s.replace(/<[^>]*>/g, ''): every "<" up to the next ">" goes; a "<"
\* with no ">" after it stays.  s[i] is in a match when a ">" follows or is
\* s[i] and a "<" before or at i has no ">" between it and i.
InTag(s, i) ==
    /\ \E k \in i..Len(s) : s[k] = ">"
    /\ \E j \in 1..i : s[j] = "<" /\ \A m \in j..(i - 1) : s[m] # ">"

StripTags(s) ==
    LET kept == SelectSeq([i \in 1..Len(s) |-> i], LAMBDA i : ~InTag(s, i))
    IN  [n \in 1..Len(kept) |-> s[kept[n]]]

\* s.split(',').
RECURSIVE SplitComma(_)
SplitComma(s) ==
    IF \A i \in 1..Len(s) : s[i] # ","
    THEN <<s>>
    ELSE LET j == CHOOSE k \in 1..Len(s) :
                     s[k] = "," /\ \A m \in 1..(k - 1) : s[m] # ","
         IN <<SubSeq(s, 1, j - 1)>> \o SplitComma(SubSeq(s, j + 1, Len(s)))

(***************************************************************************)
(* generateSlug, route.ts 39-51.                                           *)
(***************************************************************************)
SlugMaxLen == 60

generateSlug(title) ==
    LET s1 == ToLowerCase(title)
        s2 == ReplaceChars(s1, {"ä"}, <<"a", "e">>)
        s3 == ReplaceChars(s2, {"ö"}, <<"o", "e">>)
        s4 == ReplaceChars(s3, {"ü"}, <<"u", "e">>)
        s5 == ReplaceChars(s4, {"ß"}, <<"s", "s">>)
        s6 == KeepSlugChars(s5)
        s7 == ReplaceRuns(s6, WhiteSpace, <<"-">>)
        s8 == ReplaceRuns(s7, {"-"}, <<"-">>)
        s9 == TrimHyphens(s8)
    IN SubstringTo(s9, SlugMaxLen)

(***************************************************************************)
(* JavaScript values: JSON documents, and undefined.                       *)
(***************************************************************************)
UNDEF == [t |-> "undefined"]
JNull == [t |-> "null"]
JBool(b) == [t |-> "boolean", v |-> b]
JStr(s) == [t |-> "string", v |-> s]
JArr(a) == [t |-> "array", v |-> a]
\* An object: a function from its own property names to their values.
JObj(f) == [t |-> "object", v |-> f]

IsString(x) == x.t = "string"
IsArray(x) == x.t = "array"
\* typeof x === 'object'
TypeofObject(x) == x.t \in {"object", "array", "null"}

\* ToBoolean.
Truthy(x) ==
    CASE x.t \in {"undefined", "null"} -> FALSE
      [] x.t = "boolean" -> x.v
      [] x.t = "number" -> x.v # 0
      [] x.t = "string" -> x.v # <<>>
      [] OTHER -> TRUE

\* The named properties of a value (an array has only index properties, a
\* primitive none of the names the code reads).
Fields(x) == IF x.t = "object" THEN x.v ELSE EmptyMap

\* x.k
Get(x, k) == IF k \in DOMAIN Fields(x) THEN Fields(x)[k] ELSE UNDEF

\* JSON.parse(JSON.stringify(obj)): properties holding undefined are not
\* written.
Stringify(obj) ==
    JObj([k \in {n \in DOMAIN obj.v : obj.v[n].t # "undefined"} |-> obj.v[k]])

(***************************************************************************)
(* Dates.  An ISO-8601 timestamp is written "T" followed by the instant's  *)
(* milliseconds in decimal; any other string is not a date.                *)
(***************************************************************************)
\* new Date(ms).toISOString()
ToISOString(ms) == <<"T">> \o DecStr(ms)

\* !isNaN(new Date(s).getTime())
DateValid(s) ==
    /\ Len(s) >= 2
    /\ s[1] = "T"
    /\ \A i \in 2..Len(s) : s[i] \in DigitSet

\* new Date(s).getTime(), NaN for a string that is no date.
DateGetTime(s) == IF DateValid(s) THEN DecVal(Tail(s)) ELSE NaN

(***************************************************************************)
(* normalizePayload, route.ts 54-139.                                      *)
(***************************************************************************)
\* normalized.k of the object under construction (a function from the
\* property names set so far).
NGet(n, k) == IF k \in DOMAIN n THEN n[k] ELSE UNDEF

RECURSIVE FirstString(_, _)
\* The first of the properties keys of obj that is a non-empty string, as the
\* else-if chains of route.ts 85-95 and 101-107 pick it; undefined if none.
FirstString(obj, keys) ==
    IF keys = <<>> THEN UNDEF
    ELSE LET x == Get(obj, Head(keys))
         IN IF Truthy(x) /\ IsString(x) THEN x ELSE FirstString(obj, Tail(keys))

\* The index after literal lit matched at index i of s, 0 when it does not
\* match there (or i is 0 already).
MatchLit(s, i, lit) ==
    IF i # 0 /\ i + Len(lit) - 1 <= Len(s) /\ SubSeq(s, i, i + Len(lit) - 1) = lit
    THEN i + Len(lit) ELSE 0

RECURSIVE MatchWs(_, _)
\* The index after \s* matched at i.
MatchWs(s, i) ==
    IF i # 0 /\ i <= Len(s) /\ s[i] \in WhiteSpace THEN MatchWs(s, i + 1) ELSE i

RECURSIVE MatchNoQuote(_, _)
\* The index after [^"]* matched at i.
MatchNoQuote(s, i) ==
    IF i # 0 /\ i <= Len(s) /\ s[i] # "\"" THEN MatchNoQuote(s, i + 1) ELSE i

LitImage == <<"\"", "i", "m", "a", "g", "e", "\"", ":">>
LitType == <<"\"", "@", "t", "y", "p", "e", "\"", ":">>
LitImageObject == <<"\"", "I", "m", "a", "g", "e", "O", "b", "j", "e", "c", "t", "\"", ",">>
LitUrl == <<"\"", "u", "r", "l", "\"", ":">>

\* The capture of
\* /"image":\s*\{\s*"@type":\s*"ImageObject",\s*"url":\s*"([^"]+)"/
\* matched at index i of s, <<>> when it does not match there.
SchemaMatchAt(s, i) ==
    LET a == MatchWs(s, MatchLit(s, i, LitImage))
        b == MatchWs(s, MatchLit(s, a, <<"{">>))
        c == MatchWs(s, MatchLit(s, b, LitType))
        d == MatchWs(s, MatchLit(s, c, LitImageObject))
        e == MatchWs(s, MatchLit(s, d, LitUrl))
        f == MatchLit(s, e, <<"\"">>)
        g == MatchNoQuote(s, f)
    IN IF f # 0 /\ g > f /\ MatchLit(s, g, <<"\"">>) # 0
       THEN SubSeq(s, f, g - 1) ELSE <<>>

\* content.match(...)[1] of the leftmost match, <<>> when there is none.
SchemaImage(s) ==
    IF \E i \in 1..Len(s) : SchemaMatchAt(s, i) # <<>>
    THEN SchemaMatchAt(s, CHOOSE i \in 1..Len(s) :
            /\ SchemaMatchAt(s, i) # <<>>
            /\ \A j \in 1..(i - 1) : SchemaMatchAt(s, j) = <<>>)
    ELSE <<>>

\* if (!normalized.k && v) normalized.k = v
SetIfAbsent(n, k, v) ==
    IF ~Truthy(NGet(n, k)) /\ Truthy(v) THEN MapSet(n, k, v) ELSE n

\* 58-64: content from htmlContent, else markdown.
NormContent(data, n) ==
    IF Truthy(NGet(n, "content")) THEN n
    ELSE IF Truthy(Get(data, "htmlContent")) /\ IsString(Get(data, "htmlContent"))
    THEN MapSet(n, "content", Get(data, "htmlContent"))
    ELSE IF Truthy(Get(data, "markdown")) /\ IsString(Get(data, "markdown"))
    THEN MapSet(n, "content", Get(data, "markdown"))
    ELSE n

\* data.seoMetadata && typeof data.seoMetadata === 'object'
HasSeo(data) == Truthy(Get(data, "seoMetadata")) /\ TypeofObject(Get(data, "seoMetadata"))

\* 67-81: metaDescription and slug from seoMetadata.
NormSeo(data, n) ==
    IF ~HasSeo(data) THEN n
    ELSE SetIfAbsent(
           SetIfAbsent(
             SetIfAbsent(
               SetIfAbsent(n, "metaDescription",
                           Get(Get(data, "seoMetadata"), "metaDescription")),
               "metaDescription", Get(Get(data, "seoMetadata"), "description")),
             "slug", Get(Get(data, "seoMetadata"), "slug")),
           "slug", Get(Get(data, "seoMetadata"), "handle"))

\* 84-96: featuredImage from the alternate image fields.
NormImage(data, n) ==
    SetIfAbsent(n, "featuredImage",
                FirstString(data, <<"coverImageUrl", "coverImage", "cover", "image",
                                    "featuredImage">>))

\* 99-108: featuredImage from seoMetadata.
NormSeoImage(data, n) ==
    IF ~HasSeo(data) THEN n
    ELSE SetIfAbsent(n, "featuredImage",
                     FirstString(Get(data, "seoMetadata"),
                                 <<"image", "coverImage", "ogImage">>))

\* 111-116: featuredImage from the JSON-LD of the content.
NormSchemaImage(n) ==
    IF /\ ~Truthy(NGet(n, "featuredImage"))
       /\ Truthy(NGet(n, "content")) /\ IsString(NGet(n, "content"))
       /\ SchemaImage(n["content"].v) # <<>>
    THEN MapSet(n, "featuredImage", JStr(SchemaImage(n["content"].v)))
    ELSE n

\* data.keywords.split(',').map(k => k.trim())
KeywordTags(parts) == JArr([i \in 1..Len(parts) |-> JStr(Trim(parts[i]))])

\* 119-125: tags from keywords.
NormTags(data, n) ==
    IF Truthy(NGet(n, "tags")) \/ ~Truthy(Get(data, "keywords")) THEN n
    ELSE IF IsArray(Get(data, "keywords")) THEN MapSet(n, "tags", Get(data, "keywords"))
    ELSE IF IsString(Get(data, "keywords"))
    THEN MapSet(n, "tags", KeywordTags(SplitComma(Get(data, "keywords").v)))
    ELSE n

\* 128-130: slug from the title.
NormSlug(n) ==
    IF ~Truthy(NGet(n, "slug")) /\ Truthy(NGet(n, "title")) /\ IsString(NGet(n, "title"))
    THEN MapSet(n, "slug", JStr(generateSlug(n["title"].v)))
    ELSE n

\* textContent.substring(0, 160) + (textContent.length > 160 ? '...' : '')
Excerpt(text) ==
    SubstringTo(text, 160) \o (IF Len(text) > 160 THEN <<".", ".", ".">> ELSE <<>>)

\* 133-136: metaDescription from the content.
NormMeta(n) ==
    IF /\ ~Truthy(NGet(n, "metaDescription"))
       /\ Truthy(NGet(n, "content")) /\ IsString(NGet(n, "content"))
    THEN MapSet(n, "metaDescription", JStr(Excerpt(Trim(StripTags(n["content"].v)))))
    ELSE n

\* The normalized object, as a function from its property names.
normalizePayload(data) ==
    NormMeta(NormSlug(NormTags(data, NormSchemaImage(NormSeoImage(data,
        NormImage(data, NormSeo(data, NormContent(data, Fields(data)))))))))

(***************************************************************************)
(* validatePayload, route.ts 141-206.                                      *)
(***************************************************************************)
\* The errors of validatePayload.
Err ==
    [notObject |-> "Invalid payload: expected JSON object",
     title |-> "Missing or invalid required field: title",
     content |-> "Missing or invalid required field: content (or htmlContent/markdown)",
     slug |-> "Missing or invalid required field: slug",
     metaDescription |-> "Missing or invalid required field: metaDescription",
     slugFormat |-> "Invalid slug format: must be lowercase with hyphens"]

Invalid(reason) == [valid |-> FALSE, error |-> reason]

\* !normalized.k || typeof normalized.k !== "string", negated
Required(n, k) == Truthy(NGet(n, k)) /\ IsString(NGet(n, k))

\* fixedSlug && slugRegex.test(fixedSlug): the repaired slug, <<>> when the
\* repair did not help.
AcceptFixed(fixedSlug) ==
    IF fixedSlug # <<>> /\ SlugRegexTest(fixedSlug) THEN fixedSlug ELSE <<>>

\* A mutant of CheckedSlug: a repair that did not help is tried once more.
CheckedSlugTwice(slug) ==
    IF SlugRegexTest(slug) THEN slug
    ELSE IF AcceptFixed(generateSlug(slug)) # <<>> THEN generateSlug(slug)
    ELSE AcceptFixed(generateSlug(generateSlug(slug)))

\* 169-180: the slug validation keeps, <<>> for the invalid-format error.
CheckedSlug(slug) ==
    IF SlugRegexTest(slug) THEN slug ELSE AcceptFixed(generateSlug(slug))

\* 189-194: an optional string property.
WithOptionalString(p, n, k) ==
    IF Truthy(NGet(n, k)) /\ IsString(NGet(n, k)) THEN MapSet(p, k, n[k]) ELSE p

\* 195-197: tags, its strings only.
WithTags(p, n) ==
    IF Truthy(NGet(n, "tags")) /\ IsArray(NGet(n, "tags"))
    THEN MapSet(p, "tags", JArr(SelectSeq(n["tags"].v, IsString))) ELSE p

\* 198-203: publishedAt, when it is a date.
WithPublishedAt(p, n) ==
    IF /\ Truthy(NGet(n, "publishedAt")) /\ IsString(NGet(n, "publishedAt"))
       /\ DateValid(n["publishedAt"].v)
    THEN MapSet(p, "publishedAt", n["publishedAt"]) ELSE p

\* 182-205: validPayload.
ValidPayload(n, slug) ==
    WithPublishedAt(
      WithTags(
        WithOptionalString(
          WithOptionalString(
            [k \in {"title", "content", "slug", "metaDescription"} |->
                IF k = "slug" THEN JStr(slug) ELSE n[k]],
            n, "featuredImage"),
          n, "author"),
        n),
      n)

\* 169-205 on the slug the format check left.
ValidateSlug(n, slug) ==
    IF slug = <<>> THEN Invalid(Err.slugFormat)
    ELSE [valid |-> TRUE, payload |-> ValidPayload(n, slug)]

\* A mutant of ValidateNormalized: the content is checked before the title.
ValidateNormalizedContentFirst(n) ==
    IF ~Required(n, "content") THEN Invalid(Err.content)
    ELSE IF ~Required(n, "title") THEN Invalid(Err.title)
    ELSE IF ~Required(n, "slug") THEN Invalid(Err.slug)
    ELSE IF ~Required(n, "metaDescription") THEN Invalid(Err.metaDescription)
    ELSE ValidateSlug(n, CheckedSlug(n["slug"].v))

\* 150-205 on the normalized object.
ValidateNormalized(n) ==
    IF ~Required(n, "title") THEN Invalid(Err.title)
    ELSE IF ~Required(n, "content") THEN Invalid(Err.content)
    ELSE IF ~Required(n, "slug") THEN Invalid(Err.slug)
    ELSE IF ~Required(n, "metaDescription") THEN Invalid(Err.metaDescription)
    ELSE ValidateSlug(n, CheckedSlug(n["slug"].v))

validatePayload(data) ==
    IF ~Truthy(data) \/ ~TypeofObject(data) THEN Invalid(Err.notObject)
    ELSE ValidateNormalized(normalizePayload(data))

(***************************************************************************)
(* The content store: content/posts/<slug>.json and                        *)
(* content/slug-mapping.json, in the repository the webhook commits to and *)
(* the site reads.                                                         *)
(***************************************************************************)
Locales == {"de", "en", "fr"}

\* The content of a file that JSON.parse rejects.
Unparsable == [t |-> "unparsable"]

\* The revision marker the content API reports for an object: the hash of
\* its content, one marker per content.
Sha(content) == [t |-> "sha", v |-> content]

\* The content API accepts a PUT that creates an object when it carries no
\* marker, and one that updates an object when it carries the object's
\* current marker.
PutAcceptable(store, slug, sha) ==
    IF slug \in DOMAIN store THEN sha = Sha(store[slug]) ELSE sha = UNDEF

(***************************************************************************)
(* The readers of the store, blog.ts 35-173.  The mapping file is a map    *)
(* from a canonical slug to the slugs of its variants by locale; a locale  *)
(* with no entry reads as the empty string, which the code treats as it    *)
(* treats undefined.                                                       *)
(***************************************************************************)
\* mapping[originalSlug][locale], blog.ts 94-101 and 131-136.
MappedSlug(mapping, originalSlug, locale) ==
    IF originalSlug \in DOMAIN mapping /\ locale \in DOMAIN mapping[originalSlug]
    THEN mapping[originalSlug][locale]
    ELSE <<>>

\* validSlugs of getAllPosts, blog.ts 80-103, as the values of post.slug.
ValidSlugs(store, mapping, locale) ==
    IF locale = "de"
    THEN {Get(store[f], "slug") : f \in {g \in DOMAIN store :
                                            ~Truthy(Get(store[g], "originalSlug"))}}
    ELSE {JStr(MappedSlug(mapping, o, locale)) :
            o \in {m \in DOMAIN mapping : MappedSlug(mapping, m, locale) # <<>>}}

\* new Date(post.publishedAt).getTime()
PublishedTime(post) ==
    IF IsString(Get(post, "publishedAt")) THEN DateGetTime(Get(post, "publishedAt").v)
    ELSE NaN

\* The comparator of the sort, blog.ts 111-114: a result that is not
\* positive (NaN included) leaves a before b.
ComesAfter(a, b) ==
    /\ PublishedTime(a) # NaN /\ PublishedTime(b) # NaN
    /\ PublishedTime(b) - PublishedTime(a) > 0

\* One element put into a sorted list, behind its equals.
RECURSIVE SortInsert(_, _)
SortInsert(sorted, x) ==
    IF sorted = <<>> THEN <<x>>
    ELSE IF ComesAfter(sorted[Len(sorted)], x)
    THEN SortInsert(SubSeq(sorted, 1, Len(sorted) - 1), x) \o <<sorted[Len(sorted)]>>
    ELSE sorted \o <<x>>

\* Array.prototype.sort with the comparator: a stable sort.
RECURSIVE SortPosts(_)
SortPosts(list) ==
    IF list = <<>> THEN <<>>
    ELSE SortInsert(SortPosts(SubSeq(list, 1, Len(list) - 1)), list[Len(list)])

\* getAllPosts(locale), blog.ts 71-120; fileNames is what readdirSync
\* returned, the names of the store in the directory's order.
\* JSON.parse throws on the content of one of the files, in the loop of
\* blog.ts 84-91 (de) or in the map of 104-109 (every locale), and the catch
\* of 117-119 returns [].
getAllPosts(store, mapping, fileNames, locale) ==
    IF \E i \in 1..Len(fileNames) : store[fileNames[i]] = Unparsable
    THEN <<>>
    ELSE SortPosts(SelectSeq([i \in 1..Len(fileNames) |-> store[fileNames[i]]],
                             LAMBDA post : Get(post, "slug")
                                            \in ValidSlugs(store, mapping, locale)))

\* targetSlug of getPostBySlug, blog.ts 127-138.
TargetSlug(mapping, slug, locale) ==
    IF locale # "de" /\ MappedSlug(mapping, slug, locale) # <<>>
    THEN MappedSlug(mapping, slug, locale)
    ELSE slug

\* blog.ts 152-165: the file read is a post without originalSlug and the
\* locale is not the default one.
TranslationOf(store, mapping, post, locale) ==
    IF /\ IsString(Get(post, "slug"))
       /\ MappedSlug(mapping, Get(post, "slug").v, locale) # <<>>
       /\ MappedSlug(mapping, Get(post, "slug").v, locale) \in DOMAIN store
       /\ store[MappedSlug(mapping, Get(post, "slug").v, locale)] # Unparsable
    THEN store[MappedSlug(mapping, Get(post, "slug").v, locale)]
    ELSE JNull

\* blog.ts 143-167 on the file read.
PostForLocale(store, mapping, post, locale) ==
    IF locale = "de" /\ Truthy(Get(post, "originalSlug")) THEN JNull
    ELSE IF locale # "de" /\ ~Truthy(Get(post, "originalSlug"))
    THEN TranslationOf(store, mapping, post, locale)
    ELSE post

\* blog.ts 140-172 on the target slug.
ReadTarget(store, mapping, targetSlug, locale) ==
    IF targetSlug \in DOMAIN store /\ store[targetSlug] # Unparsable
    THEN PostForLocale(store, mapping, store[targetSlug], locale)
    ELSE JNull

\* getPostBySlug(slug, locale), blog.ts 122-173: the post, or null.
getPostBySlug(store, mapping, slug, locale) ==
    ReadTarget(store, mapping, TargetSlug(mapping, slug, locale), locale)

\* notFound()
NotFound == [status |-> 404, post |-> JNull]

\* The post page /locale/blog/slug, BlogPostPage: the post is read with
\* getPostBySlug(slug), whose locale is then the default one, and rendered.
BlogPostPage(store, mapping, locale, slug) ==
    IF ~Truthy(getPostBySlug(store, mapping, slug, "de")) THEN NotFound
    ELSE [status |-> 200, post |-> getPostBySlug(store, mapping, slug, "de")]

\* The listing page /locale/blog, BlogPage: the slugs of the post pages it
\* links to, /locale/blog/post.slug for every post of getAllPosts(locale).
BlogPage(store, mapping, fileNames, locale) ==
    [i \in 1..Len(getAllPosts(store, mapping, fileNames, locale)) |->
        Get(getAllPosts(store, mapping, fileNames, locale)[i], "slug").v]

\* matchingTags.length, blog.ts 191-192: the tags of the post that tags
\* includes; a post without tags scores 0.
TagScore(post, tags) ==
    IF IsArray(Get(post, "tags"))
    THEN Len(SelectSeq(Get(post, "tags").v,
                       LAMBDA tag : \E i \in 1..Len(tags) : tags[i] = tag))
    ELSE 0

\* One post put into a list sorted by score, behind those that score as
\* much.
RECURSIVE ScoreInsert(_, _, _)
ScoreInsert(sorted, x, tags) ==
    IF sorted = <<>> THEN <<x>>
    ELSE IF TagScore(x, tags) - TagScore(sorted[Len(sorted)], tags) > 0
    THEN ScoreInsert(SubSeq(sorted, 1, Len(sorted) - 1), x, tags) \o <<sorted[Len(sorted)]>>
    ELSE sorted \o <<x>>

\* scoredPosts.sort((a, b) => b.score - a.score), blog.ts 196: stable.
RECURSIVE SortByScore(_, _)
SortByScore(list, tags) ==
    IF list = <<>> THEN <<>>
    ELSE ScoreInsert(SortByScore(SubSeq(list, 1, Len(list) - 1), tags), list[Len(list)], tags)

\* list.slice(0, limit) for a limit that is not negative.
SliceTo(list, limit) == SubSeq(list, 1, Min(limit, Len(list)))

\* otherPosts, blog.ts 184-188.
OtherPosts(allPosts, currentSlug) ==
    SelectSeq(allPosts, LAMBDA post : /\ Get(post, "slug") # JStr(currentSlug)
                                      /\ Get(post, "originalSlug") # JStr(currentSlug))

\* getRelatedPosts(currentSlug, tags, limit, locale), blog.ts 175-203.
getRelatedPosts(store, mapping, fileNames, currentSlug, tags, limit, locale) ==
    IF Len(tags) > 0
    THEN SliceTo(SortByScore(OtherPosts(getAllPosts(store, mapping, fileNames, locale),
                                        currentSlug), tags), limit)
    ELSE SliceTo(OtherPosts(getAllPosts(store, mapping, fileNames, locale), currentSlug),
                 limit)

\* A mutant of savePost: a file that exists is left as it is.
savePostNoOverwrite(store, post) ==
    IF post["slug"].v \in DOMAIN store THEN store
    ELSE MapSet(store, post["slug"].v, Stringify(JObj(post)))

\* savePost(post), blog.ts 205-210: content/posts/<post.slug>.json is
\* written with JSON.stringify(post), replacing what was there.
savePost(store, post) == MapSet(store, post["slug"].v, Stringify(JObj(post)))

(***************************************************************************)
(* The webhook, route.ts 406-552.                                          *)
(***************************************************************************)
Handlers == {"h1", "h2"}

\* The secrets of the deployment.
SecretToken == <<"k">>
EnvValues == {UNDEF, JStr(SecretToken)}

LitBearer == <<"B", "e", "a", "r", "e", "r", " ">>
LitBasic == <<"B", "a", "s", "i", "c", " ">>
\* request.headers.get("authorization"): null when the header is missing.
AuthHeaders == {JNull, JStr(LitBasic \o SecretToken), JStr(LitBearer \o SecretToken),
                JStr(LitBearer \o <<"x">>)}

\* 5 * 1024 * 1024, route.ts 446.
MaxPayload == 5 * 1024 * 1024
\* request.headers.get("content-length")
ContentLengths == {JNull, JStr(DecStr(MaxPayload)), JStr(DecStr(MaxPayload + 1))}

\* The clients whose requests reach the webhook.
PostClients == {"unknown"}

\* The texts of the responses of POST and of the errors of savePostToGitHub.
Msg ==
    [rateLimit |-> "Rate limit exceeded. Max 10 requests/minute.",
     config |-> "Server configuration error",
     authHeader |-> "Missing or invalid Authorization header",
     authToken |-> "Invalid authentication token",
     tooLarge |-> "Payload too large. Maximum size is 5MB.",
     testPing |-> "Test connection successful! Webhook is ready to receive articles.",
     saveFailed |-> "Failed to save post",
     created |-> "Post created successfully and committed to GitHub. Translations being generated.",
     badJson |-> "Invalid JSON payload",
     internal |-> "Internal server error",
     noGitHubToken |-> "GitHub token not configured",
     gitHubApi |-> "GitHub API error: ",
     commitFailed |-> "Failed to commit to GitHub"]

\* NextResponse.json({success, error | message, slug}, {status}).
Response(status, success, text, slug) ==
    [status |-> status, success |-> success, text |-> text, slug |-> slug]
NoResponse == Response(0, FALSE, "", <<>>)

\* A mutant of HeaderChecks: the token is not compared with the secret.
HeaderChecksNoToken(admitted, secret, auth, len) ==
    IF ~admitted
    THEN [resp |-> Response(429, FALSE, Msg.rateLimit, <<>>), passed |-> {}]
    ELSE IF ~Truthy(secret)
    THEN [resp |-> Response(500, FALSE, Msg.config, <<>>), passed |-> {"rate"}]
    ELSE IF ~Truthy(auth) \/ ~StartsWith(auth.v, LitBearer)
    THEN [resp |-> Response(401, FALSE, Msg.authHeader, <<>>), passed |-> {"rate"}]
    ELSE IF Truthy(len) /\ ParseInt(len.v) > MaxPayload
    THEN [resp |-> Response(413, FALSE, Msg.tooLarge, <<>>), passed |-> {"rate", "auth"}]
    ELSE [resp |-> NoResponse, passed |-> {"rate", "auth", "size"}]

\* A mutant of HeaderChecks: a declared length of exactly 5 MiB is refused.
HeaderChecksInclusiveSize(admitted, secret, auth, len) ==
    IF ~admitted
    THEN [resp |-> Response(429, FALSE, Msg.rateLimit, <<>>), passed |-> {}]
    ELSE IF ~Truthy(secret)
    THEN [resp |-> Response(500, FALSE, Msg.config, <<>>), passed |-> {"rate"}]
    ELSE IF ~Truthy(auth) \/ ~StartsWith(auth.v, LitBearer)
    THEN [resp |-> Response(401, FALSE, Msg.authHeader, <<>>), passed |-> {"rate"}]
    ELSE IF SubstringFrom(auth.v, 7) # secret.v
    THEN [resp |-> Response(403, FALSE, Msg.authToken, <<>>), passed |-> {"rate"}]
    ELSE IF Truthy(len) /\ ParseInt(len.v) >= MaxPayload
    THEN [resp |-> Response(413, FALSE, Msg.tooLarge, <<>>), passed |-> {"rate", "auth"}]
    ELSE [resp |-> NoResponse, passed |-> {"rate", "auth", "size"}]

\* The synchronous head of POST, route.ts 412-451, on the outcome of
\* checkRateLimit and the headers: the early response, or status 0 to go on,
\* and the checks that were passed.
HeaderChecks(admitted, secret, auth, len) ==
    IF ~admitted
    THEN [resp |-> Response(429, FALSE, Msg.rateLimit, <<>>), passed |-> {}]
    ELSE IF ~Truthy(secret)
    THEN [resp |-> Response(500, FALSE, Msg.config, <<>>), passed |-> {"rate"}]
    ELSE IF ~Truthy(auth) \/ ~StartsWith(auth.v, LitBearer)
    THEN [resp |-> Response(401, FALSE, Msg.authHeader, <<>>), passed |-> {"rate"}]
    ELSE IF SubstringFrom(auth.v, 7) # secret.v
    THEN [resp |-> Response(403, FALSE, Msg.authToken, <<>>), passed |-> {"rate"}]
    ELSE IF Truthy(len) /\ ParseInt(len.v) > MaxPayload
    THEN [resp |-> Response(413, FALSE, Msg.tooLarge, <<>>), passed |-> {"rate", "auth"}]
    ELSE [resp |-> NoResponse, passed |-> {"rate", "auth", "size"}]

\* body.test === true || body.test === "true" ||
\* (body.test && !body.title && !body.htmlContent), route.ts 459.
IsTestPing(body) ==
    LET test == Get(body, "test") IN
    \/ test = JBool(TRUE)
    \/ test = JStr(<<"t", "r", "u", "e">>)
    \/ (Truthy(test) /\ ~Truthy(Get(body, "title")) /\ ~Truthy(Get(body, "htmlContent")))

\* postData, route.ts 479-489, as JSON.stringify writes it.
PostData(payload, t) ==
    [k \in {"title", "slug", "content", "metaDescription", "featuredImage",
            "author", "tags", "publishedAt", "updatedAt"} |->
        CASE k = "tags" ->
                IF Truthy(NGet(payload, "tags")) THEN payload["tags"] ELSE JArr(<<>>)
          [] k = "publishedAt" ->
                IF Truthy(NGet(payload, "publishedAt")) THEN payload["publishedAt"]
                ELSE JStr(ToISOString(t))
          [] k = "updatedAt" -> JStr(ToISOString(t))
          [] OTHER -> NGet(payload, k)]

\* The characters of a locale code.
LocaleCode(locale) ==
    CASE locale = "de" -> <<"d", "e">>
      [] locale = "en" -> <<"e", "n">>
      [] locale = "fr" -> <<"f", "r">>

\* A mutant of TranslatedPostOf: the variant keeps the slug of the original.
TranslatedPostOfSameSlug(original, translated, locale) ==
    [k \in DOMAIN original |->
        CASE k \in {"title", "content", "metaDescription", "tags"} -> Get(translated, k)
          [] OTHER -> original[k]]

\* translatedPost, route.ts 384-391: the original's properties, overridden.
TranslatedPostOf(original, translated, locale) ==
    [k \in DOMAIN original |->
        CASE k \in {"title", "content", "metaDescription", "tags"} -> Get(translated, k)
          [] k = "slug" -> JStr(original["slug"].v \o <<"-">> \o LocaleCode(locale))
          [] OTHER -> original[k]]

LitBlog == <<"/", "b", "l", "o", "g">>

\* A mutant of RevalidatedPaths: the suffixed translated paths are left out.
RevalidatedPathsNoSuffix(slug) ==
    {LitBlog, LitBlog \o <<"/">> \o slug}
    \cup {<<"/">> \o LocaleCode(l) \o LitBlog : l \in {"de", "en", "fr"}}
    \cup {<<"/">> \o LocaleCode(l) \o LitBlog \o <<"/">> \o slug : l \in {"de", "en", "fr"}}

\* The paths POST revalidates for slug, route.ts 521-530.
RevalidatedPaths(slug) ==
    {LitBlog, LitBlog \o <<"/">> \o slug}
    \cup {<<"/">> \o LocaleCode(l) \o LitBlog : l \in Locales}
    \cup {<<"/">> \o LocaleCode(l) \o LitBlog \o <<"/">> \o slug : l \in Locales}
    \cup {<<"/">> \o LocaleCode(l) \o LitBlog \o <<"/">> \o slug \o <<"-">> \o LocaleCode(l) :
            l \in {"en", "fr"}}

\* What a handler holds between two steps.
\* at: the time request.json() settled, -1 before.
NoReq == [ip |-> "", auth |-> JNull, len |-> JNull, body |-> UNDEF, at |-> -1]
NoLoc == [post |-> EmptyMap, slug |-> <<>>, file |-> <<>>, data |-> EmptyMap,
          sha |-> UNDEF, target |-> ""]
NoEff == [passed |-> {}, calls |-> {}, translated |-> {}, revalidated |-> {},
          wrote |-> {}, saves |-> {}]

StateOf(h) == [pc |-> pc[h], loc |-> loc[h], resp |-> resp[h], eff |-> eff[h]]

\* return NextResponse.json(...)
Respond(st, r) == [st EXCEPT !.pc = "responded", !.resp = r]

\* The end of POST, route.ts 520-536: the revalidations, then the response.
Finalize(st) ==
    Respond([st EXCEPT !.eff.revalidated = @ \cup RevalidatedPaths(st.loc.slug)],
            Response(200, TRUE, Msg.created, LitBlog \o <<"/">> \o st.loc.slug))

\* savePostToGitHub up to its first await, route.ts 209-234: the GET is
\* sent (pc "gh_get"), or the call returns its failure at once (pc
\* "save_failed").  target "de" is the call of POST (492), "en" and "fr" the
\* calls of createTranslatedPosts (393).
SaveHead(st, slug, data, target) ==
    IF ~Truthy(env.GITHUB_TOKEN)
    THEN [st EXCEPT !.pc = "save_failed", !.loc.target = target,
                    !.eff.saves = @ \cup {[target |-> target, kind |-> "notoken",
                                           msg |-> ""]}]
    ELSE [st EXCEPT !.pc = "gh_get", !.loc.target = target, !.loc.file = slug,
                    !.loc.data = data, !.loc.sha = UNDEF,
                    !.eff.calls = @ \cup {[m |-> "GET", slug |-> slug]}]

\* translatePost up to its await, route.ts 282-324: the request is sent (pc
\* "tr_fetch"), or the call returns null at once (pc "tr_null").
TranslateHead(st, locale) ==
    IF ~Truthy(env.OPENAI_API_KEY)
    THEN [st EXCEPT !.pc = "tr_null", !.loc.target = locale]
    ELSE [st EXCEPT !.pc = "tr_fetch", !.loc.target = locale,
                    !.eff.translated = @ \cup {locale}]

\* The iteration for "fr" of the loop of createTranslatedPosts begun (s is
\* what translatePost left), and after the loop the end of POST.
FrBegun(s) == IF s.pc = "tr_fetch" THEN s ELSE Finalize(s)

\* A mutant of AfterLocale: the loop ends with the first locale.
AfterLocaleStopping(st) == Finalize(st)

\* The iteration for st.loc.target is over, route.ts 371-403: on to the next
\* locale, and after the last one back in POST.
AfterLocale(st) ==
    IF st.loc.target = "en" THEN FrBegun(TranslateHead(st, "fr")) ELSE Finalize(st)

\* The call of savePostToGitHub for a variant begun, route.ts 393-398.
VariantSaveBegun(s) == IF s.pc = "gh_get" THEN s ELSE AfterLocale(s)

\* createTranslatedPosts after translatePost returned, route.ts 383-399.
AfterTranslate(st, translated) ==
    IF Truthy(translated)
    THEN VariantSaveBegun(
            SaveHead(st,
                     TranslatedPostOf(st.loc.post, translated, st.loc.target)["slug"].v,
                     TranslatedPostOf(st.loc.post, translated, st.loc.target),
                     st.loc.target))
    ELSE AfterLocale(st)

\* The iteration for "en" begun.
EnBegun(s) == IF s.pc = "tr_fetch" THEN s ELSE AfterLocale(s)

\* A mutant of AfterCanonicalSave: the result of the save is not looked at.
AfterCanonicalSaveIgnoring(st, ok, error) ==
    IF Truthy(env.OPENAI_API_KEY)
    THEN EnBegun(TranslateHead(st, "en"))
    ELSE Finalize(st)

\* POST after savePostToGitHub returned for the canonical post, route.ts
\* 494-518.
AfterCanonicalSave(st, ok, error) ==
    IF ~ok
    THEN Respond(st, Response(500, FALSE, IF error # "" THEN error ELSE Msg.saveFailed,
                              <<>>))
    ELSE IF Truthy(env.OPENAI_API_KEY)
    THEN EnBegun(TranslateHead(st, "en"))
    ELSE Finalize(st)

\* What follows a call of savePostToGitHub.
AfterSave(st, ok, error) ==
    IF st.loc.target = "de" THEN AfterCanonicalSave(st, ok, error) ELSE AfterLocale(st)

\* The call of savePostToGitHub for the canonical post begun, route.ts 492.
CanonicalSaveBegun(s) ==
    IF s.pc = "gh_get" THEN s ELSE AfterCanonicalSave(s, FALSE, Msg.noGitHubToken)

\* What request.json() yields: a JSON document, or a SyntaxError.
Malformed == [t |-> "malformed"]

\* POST from the validation on, route.ts 467-492.
Validated(st, v, t) ==
    IF ~v.valid
    THEN Respond([st EXCEPT !.eff.passed = @ \cup {"json", "notping"}],
                 Response(400, FALSE, v.error, <<>>))
    ELSE CanonicalSaveBegun(
            SaveHead([st EXCEPT !.eff.passed = @ \cup {"json", "notping", "valid"},
                                !.loc.post = PostData(v.payload, t),
                                !.loc.slug = v.payload["slug"].v],
                     v.payload["slug"].v, PostData(v.payload, t), "de"))

\* POST from request.json() to its next await, route.ts 453-492.
ParseStep(st, body, t) ==
    IF body = Malformed
    THEN Respond(st, Response(400, FALSE, Msg.badJson, <<>>))
    ELSE IF body.t = "null"
    \* Object.keys(null) throws a TypeError
    THEN Respond([st EXCEPT !.eff.passed = @ \cup {"json"}],
                 Response(500, FALSE, Msg.internal, <<>>))
    ELSE IF IsTestPing(body)
    THEN Respond([st EXCEPT !.eff.passed = @ \cup {"json"}],
                 Response(200, TRUE, Msg.testPing, <<>>))
    ELSE Validated(st, validatePayload(body), t)

(***************************************************************************)
(* The inputs of the webhook.                                              *)
(***************************************************************************)
\* {title: "A b", content: "<p>x</p>", metaDescription: "d"}
PostA ==
    JObj([k \in {"title", "content", "metaDescription"} |->
            CASE k = "title" -> JStr(<<"A", " ", "b">>)
              [] k = "content" -> JStr(<<"<", "p", ">", "x", "<", "/", "p", ">">>)
              [] OTHER -> JStr(<<"d">>)])
\* {content: "<p>x</p>"}
PostNoTitle == JObj([k \in {"content"} |-> JStr(<<"<", "p", ">", "x", "<", "/", "p", ">">>)])
\* {test: true}
TestPing == JObj([k \in {"test"} |-> JBool(TRUE)])

\* body with its property k set to v.
WithField(body, k, v) == JObj(MapSet(body.v, k, v))
\* {title: "A b", content: "<p>x</p>", metaDescription: "d", test: true}
PostATest == WithField(PostA, "test", JBool(TRUE))
\* {author: "x"}: neither title nor content.
PostNoFields == JObj([k \in {"author"} |-> JStr(<<"x">>)])
\* {title: "?!"}: no content, and no slug can be made of the title.
PostNoContent == JObj([k \in {"title"} |-> JStr(<<"?", "!">>)])
\* {title: "?!", content: "<p>x</p>"}
PostNoSlug == WithField(PostNoContent, "content", PostA.v["content"])
\* {title: "A b", content: "<p></p>"}: the content has no text.
PostNoMeta ==
    JObj([k \in {"title", "content"} |->
            IF k = "title" THEN PostA.v["title"] ELSE JStr(<<"<", "p", ">", "<", "/", "p", ">">>)])
\* {title: [], content: "<p>x</p>", metaDescription: "d"}: a title that is
\* truthy and no string.
PostTitleArray == WithField(PostA, "title", JArr(<<>>))
\* {title: "A b", content: "<p>x</p>", metaDescription: "d", slug: "?"}
PostBadSlug == WithField(PostA, "slug", JStr(<<"?">>))
\* "hello": a JSON document that is a string.
BodyString == JStr(<<"h", "e", "l", "l", "o">>)

\* PostA with every optional property: an image, an author, tags and a
\* date of publication.
PostAFull ==
    JObj([k \in {"title", "content", "metaDescription", "featuredImage", "author", "tags",
                 "publishedAt"} |->
            CASE k = "tags" -> JArr(<<JStr(<<"x">>)>>)
              [] k = "publishedAt" -> JStr(ToISOString(7))
              [] k = "featuredImage" -> JStr(<<"i">>)
              [] k = "author" -> JStr(<<"w">>)
              [] OTHER -> PostA.v[k]])

Bodies ==
    {Malformed, JNull, BodyString, TestPing, PostA, PostATest, PostNoTitle, PostNoFields,
     PostNoContent, PostNoSlug, PostNoMeta, PostTitleArray, PostBadSlug}

\* A faithful answer of the translation provider for post and locale: every
\* text marked with the locale it was translated into.
GoodTranslation(post, locale) ==
    JObj([k \in {"title", "content", "metaDescription", "tags"} |->
            IF k = "tags" THEN post["tags"]
            ELSE JStr(post[k].v \o <<"#">> \o LocaleCode(locale))])
\* An answer that is valid JSON and lacks the title.
TranslationNoTitle(post, locale) ==
    JObj([k \in {"content", "metaDescription", "tags"} |-> GoodTranslation(post, locale).v[k]])

\* The JSON documents the provider's message content parses to.
TranslationValues(post, locale) ==
    {GoodTranslation(post, locale), TranslationNoTitle(post, locale), JNull}

(***************************************************************************)
(* The steps of POST.                                                      *)
(***************************************************************************)
SetState(h, st) ==
    /\ pc' = [pc EXCEPT ![h] = st.pc]
    /\ loc' = [loc EXCEPT ![h] = st.loc]
    /\ resp' = [resp EXCEPT ![h] = st.resp]
    /\ eff' = [eff EXCEPT ![h] = st.eff]

\* A request arrives: POST runs up to await request.json(), route.ts 406-454.
PostStart(h, ip, auth, len) ==
    /\ pc[h] = "idle"
    /\ ~(GhostInWindow(ip) /\ gSeen[ip] >= MaxSeen)
    /\ LET rl == checkRateLimit(rateLimitMap, now, ip)
           hc == HeaderChecks(rl.ok, env.WEBHOOK_SECRET, auth, len)
           st == [StateOf(h) EXCEPT !.eff.passed = hc.passed]
       IN /\ rateLimitMap' = rl.map
          /\ GhostRequest(ip, rl.ok)
          /\ req' = [req EXCEPT ![h] = [ip |-> ip, auth |-> auth, len |-> len,
                                         body |-> UNDEF, at |-> -1]]
          /\ SetState(h, IF hc.resp.status # 0 THEN Respond(st, hc.resp)
                         ELSE [st EXCEPT !.pc = "parse"])
    /\ UNCHANGED <<now, storeVars, env, scriptVars, libVars>>

\* request.json() settles, route.ts 454-492.
PostParse(h, body) ==
    /\ pc[h] = "parse"
    /\ SetState(h, ParseStep(StateOf(h), body, now))
    /\ req' = [req EXCEPT ![h].body = body, ![h].at = now]
    /\ UNCHANGED <<rateVars, storeVars, env, scriptVars, libVars>>

\* The GET of savePostToGitHub settles and the PUT is sent, route.ts 227-258:
\* found is the answer 200 with the object's marker; anything else (404, an
\* error status, a network error) leaves sha undefined.
GhGet(h, found) ==
    /\ pc[h] = "gh_get"
    /\ found => loc[h].file \in DOMAIN posts
    /\ LET sha == IF found THEN Sha(posts[loc[h].file]) ELSE UNDEF
       IN SetState(h, [StateOf(h) EXCEPT
                !.pc = "gh_put",
                !.loc.sha = sha,
                !.eff.calls = @ \cup {[m |-> "PUT", slug |-> loc[h].file]}])
    /\ UNCHANGED <<rateVars, storeVars, env, req, scriptVars, libVars>>

\* A mutant of PutContent: the properties of the object that exists are
\* kept where the new data sets none.
PutContentMerging(store, file, data) ==
    IF file \in DOMAIN store /\ store[file].t = "object"
    THEN MapSet(store, file,
                JObj([k \in DOMAIN store[file].v \cup DOMAIN Stringify(JObj(data)).v |->
                        IF k \in DOMAIN Stringify(JObj(data)).v
                        THEN Stringify(JObj(data)).v[k] ELSE store[file].v[k]]))
    ELSE MapSet(store, file, Stringify(JObj(data)))

\* The store after an accepted PUT, route.ts 220 and 244-258: the object is
\* the JSON text of postData, replacing what was there.
PutContent(store, file, data) == MapSet(store, file, Stringify(JObj(data)))

\* The messages of the content API's error answers.
GitHubErrors(acceptable) ==
    IF acceptable THEN {"Server Error"} ELSE {"Conflict", "Server Error"}

\* The PUT of savePostToGitHub settles, route.ts 244-271: "ok" the write
\* was accepted, "notok" an error answer with a message, "throw" a network
\* error.
GhPut(h, kind, msg) ==
    /\ pc[h] = "gh_put"
    /\ LET file == loc[h].file
           acceptable == PutAcceptable(posts, file, loc[h].sha)
           st == [StateOf(h) EXCEPT
                    !.eff.saves = @ \cup {[target |-> loc[h].target, kind |-> kind,
                                           msg |-> msg]},
                    !.eff.wrote = IF kind = "ok" THEN @ \cup {file} ELSE @]
       IN /\ kind = "ok" => acceptable /\ msg = ""
          /\ kind = "notok" => msg \in GitHubErrors(acceptable)
          /\ kind = "throw" => msg = ""
          /\ IF kind = "ok"
             THEN /\ posts' = PutContent(posts, file, loc[h].data)
                  /\ gLocaleOf' = MapSet(gLocaleOf, file, loc[h].target)
             ELSE UNCHANGED <<posts, gLocaleOf>>
          /\ SetState(h, AfterSave(st, kind = "ok",
                                   CASE kind = "notok" -> Msg.gitHubApi \o msg
                                     [] kind = "throw" -> Msg.commitFailed
                                     [] OTHER -> ""))
    /\ UNCHANGED <<rateVars, mappingFile, env, req, scriptVars, libVars>>

\* What translatePost returns once its fetch settled, route.ts 324-352:
\* "json" the message content parsed to value; every other kind makes it
\* return null ("throw" a network error, "notok" an error status, "empty"
\* no message content, "badjson" content that JSON.parse rejects).
translatePost(kind, value) == IF kind = "json" THEN value ELSE JNull

\* The fetch settles and createTranslatedPosts goes on, route.ts 324-403.
TrFetch(h, kind) ==
    /\ pc[h] = "tr_fetch"
    /\ \E value \in IF kind = "json"
                     THEN TranslationValues(loc[h].post, loc[h].target)
                     ELSE {JNull} :
            SetState(h, AfterTranslate(StateOf(h), translatePost(kind, value)))
    /\ UNCHANGED <<rateVars, storeVars, env, req, scriptVars, libVars>>

\* The response is sent; the handler is free for the next request.
PostDone(h) ==
    /\ pc[h] = "responded"
    /\ pc' = [pc EXCEPT ![h] = "idle"]
    /\ req' = [req EXCEPT ![h] = NoReq]
    /\ loc' = [loc EXCEPT ![h] = NoLoc]
    /\ resp' = [resp EXCEPT ![h] = NoResponse]
    /\ eff' = [eff EXCEPT ![h] = NoEff]
    /\ UNCHANGED <<rateVars, storeVars, env, scriptVars, libVars>>

(***************************************************************************)
(* The mapping-scheme translation script (scripts, main and translatePost).*)
(* It works on content/posts and content/slug-mapping.json directly.       *)
(***************************************************************************)
\* const originalSlug, main() line 115.
OriginalSlug ==
    <<"k", "i", "-", "a", "g", "e", "n", "t", "e", "n", "-", "i", "m", "-",
      "m", "i", "t", "t", "e", "l", "s", "t", "a", "n", "d", "-", "d", "e",
      "f", "i", "n", "i", "t", "i", "o", "n", "-", "n", "u", "t", "z", "e",
      "n", "-", "i", "n", "t", "e", "g", "r", "a", "t", "i", "o", "n">>

\* The image main() gives a post that has none, line 128-129.
DefaultImage == <<"c", "o", "v", "e", "r">>

\* The letters with a diacritic and, at the same index, what is left of them
\* after normalize('NFD') and the removal of the combining marks.
AccentedLetters == <<"ä", "ö", "ü", "é", "è", "à">>
BaseLetters == <<"a", "o", "u", "e", "e", "a">>

\* .normalize('NFD').replace(/[̀-ͯ]/g, ''), one character.
BaseChar(c) ==
    IF \E i \in 1..Len(AccentedLetters) : AccentedLetters[i] = c
    THEN BaseLetters[CHOOSE i \in 1..Len(AccentedLetters) : AccentedLetters[i] = c]
    ELSE c

\* generateSlug of the script, lines 34-44.
generateSlugNFD(title) ==
    SubstringTo(
        TrimHyphens(
            ReplaceRuns(
                ReplaceRuns(
                    KeepSlugChars([i \in 1..Len(title) |-> BaseChar(LowerChar(title[i]))]),
                    WhiteSpace, <<"-">>),
                {"-"}, <<"-">>)),
        SlugMaxLen)

\* translated.slug after lines 94-96.
EnsuredSlug(translated) ==
    IF ~Truthy(Get(translated, "slug")) \/ Len(Get(translated, "slug").v) < 5
    THEN JStr(generateSlugNFD(Get(translated, "title").v))
    ELSE Get(translated, "slug")

\* translatePost of the script after its await, lines 80-102: kind "empty"
\* no message content, "badjson" content JSON.parse rejects, "json" content
\* that parses to value.  A TypeError inside the try (value null, or no
\* title to make the slug from) is caught like a parse error.
ScriptTranslatePost(kind, value) ==
    IF kind # "json" \/ value.t # "object" THEN JNull
    ELSE IF (~Truthy(Get(value, "slug")) \/ Len(Get(value, "slug").v) < 5)
            /\ ~IsString(Get(value, "title"))
    THEN JNull
    ELSE JObj(MapSet(value.v, "slug", EnsuredSlug(value)))

\* enPost / frPost, main() lines 164-172 and 194-202.
ScriptVariant(original, translated, originalSlug) ==
    [k \in DOMAIN original \cup {"title", "content", "metaDescription", "tags", "slug",
                                 "originalSlug"} |->
        CASE k \in {"title", "content", "metaDescription", "tags", "slug"} ->
                Get(translated, k)
          [] k = "originalSlug" -> JStr(originalSlug)
          [] OTHER -> original[k]]

\* slugMapping[originalSlug].locale = slug
MappingSet(mapping, originalSlug, locale, slug) ==
    MapSet(mapping, originalSlug,
           MapSet(IF originalSlug \in DOMAIN mapping THEN mapping[originalSlug]
                  ELSE EmptyMap,
                  locale, slug))

\* The old translations main() deletes, lines 135-144.
OldVariants == {OriginalSlug \o <<"-">> \o LocaleCode(l) : l \in {"en", "fr"}}

\* originalPost after lines 127-132.
WithDefaultImage(post) ==
    IF Truthy(Get(post, "featuredImage")) THEN post.v
    ELSE MapSet(post.v, "featuredImage", JStr(DefaultImage))

\* The script is run (again, once an earlier run is over): main() up to its
\* first await, lines 112-153.  The OpenAI client is constructed before
\* main() and needs its key.
ScriptStart ==
    /\ scriptPc \in {"ready", "done", "failed"}
    /\ Truthy(env.OPENAI_API_KEY)
    /\ IF OriginalSlug \notin DOMAIN posts
       \* readFileSync throws, main() rejects
       THEN /\ scriptPc' = "failed"
            /\ UNCHANGED <<posts, gLocaleOf, originalPost, slugMapping>>
       ELSE /\ scriptPc' = "en"
            /\ originalPost' = WithDefaultImage(posts[OriginalSlug])
            /\ slugMapping' = IF OriginalSlug \in DOMAIN mappingFile THEN mappingFile
                              ELSE MapSet(mappingFile, OriginalSlug, EmptyMap)
            /\ posts' = MapRemove(MapSet(posts, OriginalSlug,
                                         JObj(WithDefaultImage(posts[OriginalSlug]))),
                                  OldVariants)
            /\ gLocaleOf' = MapRemove(gLocaleOf, OldVariants)
    /\ UNCHANGED <<rateVars, mappingFile, pipeVars, libVars>>

\* The answers of the translation provider to the script.
ScriptTranslations(post, locale) ==
    LET good == [k \in {"title", "content", "metaDescription", "tags", "slug"} |->
                    CASE k = "tags" -> NGet(post, "tags")
                      [] k = "slug" -> JStr(LocaleCode(locale) \o <<"-", "p", "o", "s", "t">>)
                      [] OTHER -> JStr(post[k].v \o <<"#">> \o LocaleCode(locale))]
    IN {JObj(good),
        \* a slug too short to be kept, and a title with a diacritic
        JObj([good EXCEPT !["slug"] = JStr(<<"x">>),
                          !["title"] = JStr(<<"É", "t", "é", "?">>)]),
        \* no slug, and a title without a letter or a digit
        JObj([good EXCEPT !["slug"] = UNDEF, !["title"] = JStr(<<"?", "!">>)]),
        JNull}

\* main() after the await it stands at, lines 153-213: the translation into
\* scriptPc settled.  "throw" is the client's call rejecting, which ends
\* main(); after the French translation the mapping is saved.
ScriptTranslated(kind) ==
    /\ scriptPc \in {"en", "fr"}
    /\ \E value \in IF kind = "json" THEN ScriptTranslations(originalPost, scriptPc)
                    ELSE {JNull} :
        LET translated == ScriptTranslatePost(kind, value)
            written == kind # "throw" /\ Truthy(translated)
            slug == IF written THEN Get(translated, "slug").v ELSE <<>>
            mapping == IF written THEN MappingSet(slugMapping, OriginalSlug, scriptPc, slug)
                       ELSE slugMapping
        IN /\ posts' = IF written
                       THEN MapSet(posts, slug,
                                   Stringify(JObj(ScriptVariant(originalPost, translated,
                                                                OriginalSlug))))
                       ELSE posts
           /\ gLocaleOf' = IF written THEN MapSet(gLocaleOf, slug, scriptPc) ELSE gLocaleOf
           /\ slugMapping' = mapping
           /\ scriptPc' = CASE kind = "throw" -> "failed"
                            [] scriptPc = "en" -> "fr"
                            [] OTHER -> "done"
           /\ mappingFile' = IF kind # "throw" /\ scriptPc = "fr" THEN mapping
                             ELSE mappingFile
    /\ UNCHANGED <<rateVars, pipeVars, originalPost, libVars>>

StoreInit ==
    /\ posts = EmptyMap
    /\ mappingFile = EmptyMap
    /\ gLocaleOf = EmptyMap

\* One handler serves the requests one after the other.
PipeInit ==
    /\ env \in [{"WEBHOOK_SECRET", "GITHUB_TOKEN", "OPENAI_API_KEY"} -> EnvValues]
    /\ pc = [h \in Handlers |-> IF h = "h1" THEN "idle" ELSE "off"]
    /\ req = [h \in Handlers |-> NoReq]
    /\ loc = [h \in Handlers |-> NoLoc]
    /\ resp = [h \in Handlers |-> NoResponse]
    /\ eff = [h \in Handlers |-> NoEff]

\* The script has not been run.
ScriptInit ==
    /\ scriptPc = "ready"
    /\ originalPost = EmptyMap
    /\ slugMapping = EmptyMap

\* No library call has been made.
NoCall == [fn |-> "none", arg |-> <<>>, out |-> <<>>]
LibInit == call = NoCall

Init == RateInit /\ StoreInit /\ PipeInit /\ ScriptInit /\ LibInit

PostNext ==
    \E h \in Handlers :
        \/ \E ip \in PostClients, auth \in AuthHeaders, len \in ContentLengths :
                PostStart(h, ip, auth, len)
        \/ \E body \in Bodies : PostParse(h, body)
        \/ \E found \in BOOLEAN : GhGet(h, found)
        \/ \E kind \in {"ok", "notok", "throw"}, msg \in {"", "Conflict", "Server Error"} :
                GhPut(h, kind, msg)
        \/ \E kind \in {"json", "throw", "notok", "empty", "badjson"} : TrFetch(h, kind)
        \/ PostDone(h)

Next == PostNext

\* The webhook, its requests served one at a time within one rate window.
Spec == Init /\ [][Next]_vars

\* One handler that ingests the post "a-b" again and again, with or without
\* its optional properties, while the clock moves; the secret and the
\* store's token are set, the translator's key is not.
ReingestInit ==
    /\ RateInit /\ StoreInit /\ ScriptInit /\ LibInit
    /\ env = [k \in {"WEBHOOK_SECRET", "GITHUB_TOKEN", "OPENAI_API_KEY"} |->
                IF k = "OPENAI_API_KEY" THEN UNDEF ELSE JStr(SecretToken)]
    /\ pc = [h \in Handlers |-> IF h = "h1" THEN "idle" ELSE "off"]
    /\ req = [h \in Handlers |-> NoReq]
    /\ loc = [h \in Handlers |-> NoLoc]
    /\ resp = [h \in Handlers |-> NoResponse]
    /\ eff = [h \in Handlers |-> NoEff]

ReingestNext ==
    \/ Tick
    \/ \E h \in Handlers :
        \/ \E ip \in PostClients :
                PostStart(h, ip, JStr(LitBearer \o SecretToken), JNull)
        \/ \E body \in {PostA, PostAFull} : PostParse(h, body)
        \/ \E found \in BOOLEAN : GhGet(h, found)
        \/ \E kind \in {"ok", "notok"}, msg \in {"", "Conflict"} : GhPut(h, kind, msg)
        \/ PostDone(h)

SpecReingest == ReingestInit /\ [][ReingestNext]_vars

\* What the runtime guarantees of a handler's steps: the body of a request
\* that was received is read, and a response that was built is returned.
\* Nothing makes the content API or the translation provider answer: the
\* fetch calls of route.ts 228, 244 and 305 carry no signal and no timeout.
HandlerFairness ==
    \A h \in Handlers :
        /\ WF_vars(\E body \in Bodies : PostParse(h, body))
        /\ WF_vars(PostDone(h))

\* The webhook under the runtime's scheduling.
SpecLive == Init /\ [][Next]_vars /\ HandlerFairness

\* Two handlers of one process, for requests of one client that carry the
\* secret; the clock moves and the content API refuses every write.  A
\* handler runs from one await to the next without another one running in
\* between (route.ts 406-454 holds no await before request.json()).
ConcInit ==
    /\ RateInit /\ StoreInit /\ ScriptInit /\ LibInit
    /\ env = [k \in {"WEBHOOK_SECRET", "GITHUB_TOKEN", "OPENAI_API_KEY"} |->
                IF k = "OPENAI_API_KEY" THEN UNDEF ELSE JStr(SecretToken)]
    /\ pc = [h \in Handlers |-> "idle"]
    /\ req = [h \in Handlers |-> NoReq]
    /\ loc = [h \in Handlers |-> NoLoc]
    /\ resp = [h \in Handlers |-> NoResponse]
    /\ eff = [h \in Handlers |-> NoEff]

ConcNext ==
    \/ Tick
    \/ \E h \in Handlers :
        \/ \E ip \in PostClients :
                PostStart(h, ip, JStr(LitBearer \o SecretToken), JNull)
        \/ \E body \in {TestPing, PostA} : PostParse(h, body)
        \/ \E found \in BOOLEAN : GhGet(h, found)
        \/ \E kind \in {"notok", "throw"}, msg \in {"", "Conflict"} : GhPut(h, kind, msg)
        \/ PostDone(h)

SpecConc == ConcInit /\ [][ConcNext]_vars

\* {title: "A b", content: "<p>y</p>", metaDescription: "d"}: the post of
\* PostA with another content.
PostB == WithField(PostA, "content", JStr(<<"<", "p", ">", "y", "<", "/", "p", ">">>))
\* {title: "A b", content: "<p>x</p>", metaDescription: "d", slug: "a-b-en"}
PostEn == WithField(PostA, "slug", JStr(<<"a", "-", "b", "-", "e", "n">>))

\* Two requests of one client that carry the secret have arrived at the
\* same time in one process: both handlers have run up to
\* await request.json() (route.ts 406-454), and every key is set.
RaceInit ==
    /\ StoreInit /\ ScriptInit /\ LibInit
    /\ now = 0
    /\ rateLimitMap = checkRateLimit(checkRateLimit(EmptyMap, 0, "unknown").map,
                                     0, "unknown").map
    /\ gWinStart = [c \in Clients |-> IF c = "unknown" THEN 0 ELSE -1]
    /\ gSeen = [c \in Clients |-> IF c = "unknown" THEN 2 ELSE 0]
    /\ gAdmitted = [c \in Clients |-> IF c = "unknown" THEN 2 ELSE 0]
    /\ gPrevFull = [c \in Clients |-> FALSE]
    /\ env = [k \in {"WEBHOOK_SECRET", "GITHUB_TOKEN", "OPENAI_API_KEY"} |->
                JStr(SecretToken)]
    /\ pc = [h \in Handlers |-> "parse"]
    /\ req = [h \in Handlers |->
                [NoReq EXCEPT !.ip = "unknown", !.auth = JStr(LitBearer \o SecretToken)]]
    /\ loc = [h \in Handlers |-> NoLoc]
    /\ resp = [h \in Handlers |-> NoResponse]
    /\ eff = [h \in Handlers |->
                [NoEff EXCEPT !.passed =
                    HeaderChecks(TRUE, JStr(SecretToken), JStr(LitBearer \o SecretToken),
                                 JNull).passed]]

\* The two requests go on, each from one await to the next; the content
\* API accepts a write or answers a conflict, the translation provider
\* answers or the call fails.
RaceNext ==
    \E h \in Handlers :
        \/ \E body \in {PostA, PostB, PostEn} : PostParse(h, body)
        \/ \E found \in BOOLEAN : GhGet(h, found)
        \/ \E kind \in {"ok", "notok"}, msg \in {"", "Conflict"} : GhPut(h, kind, msg)
        \/ \E kind \in {"json", "throw"} : TrFetch(h, kind)

SpecRace == RaceInit /\ [][RaceNext]_vars

RateNext ==
    \/ Tick
    \/ \E ip \in Clients : RateRequest(ip)

\* The deployment of the rate limiter's runs: every secret set.
RateSpecInit ==
    Init /\ \A k \in DOMAIN env : env[k] = JStr(SecretToken)

\* The rate limiter alone, under a moving clock.
SpecRate == RateSpecInit /\ [][RateNext]_vars

(***************************************************************************)
(* The translation script run on a store the webhook filled.               *)
(***************************************************************************)
\* {title: "KI-Agenten im Mittelstand: Definition, Nutzen, Integration", ...},
\* with or without an image.
ScriptTitle ==
    <<"K", "I", "-", "A", "g", "e", "n", "t", "e", "n", " ", "i", "m", " ",
      "M", "i", "t", "t", "e", "l", "s", "t", "a", "n", "d", ":", " ", "D",
      "e", "f", "i", "n", "i", "t", "i", "o", "n", ",", " ", "N", "u", "t",
      "z", "e", "n", ",", " ", "I", "n", "t", "e", "g", "r", "a", "t", "i",
      "o", "n">>
ScriptBody(withImage) ==
    JObj([k \in {"title", "content", "metaDescription"}
                \cup (IF withImage THEN {"featuredImage"} ELSE {}) |->
            CASE k = "title" -> JStr(ScriptTitle)
              [] k = "content" -> JStr(<<"<", "p", ">", "x", "<", "/", "p", ">">>)
              [] k = "featuredImage" -> JStr(<<"i">>)
              [] OTHER -> JStr(<<"d">>)])

\* What the webhook stores for a valid body received at time t.
StoredCanonical(body, t) == PostData(validatePayload(body).payload, t)

\* The store after the webhook ingested body: the canonical post alone
\* (translations off or failed), or with its two variants.
ScriptStores(body) ==
    LET canonical == StoredCanonical(body, 0)
        slug == canonical["slug"].v
        alone == MapSet(EmptyMap, slug, Stringify(JObj(canonical)))
        variant(l) == Stringify(JObj(TranslatedPostOf(canonical,
                                                      GoodTranslation(canonical, l), l)))
    IN {alone,
        MapSet(MapSet(alone, slug \o <<"-", "e", "n">>, variant("en")),
               slug \o <<"-", "f", "r">>, variant("fr"))}

\* The locale each record of a store the webhook filled was written for.
WrittenFor(store, canonicalSlug) ==
    [f \in DOMAIN store |->
        CASE f = canonicalSlug -> "de"
          [] f = canonicalSlug \o <<"-", "e", "n">> -> "en"
          [] OTHER -> "fr"]

ScriptSpecInit ==
    /\ RateInit /\ PipeInit /\ ScriptInit /\ LibInit
    /\ \A k \in DOMAIN env : env[k] = JStr(SecretToken)
    /\ mappingFile = EmptyMap
    /\ \E withImage \in BOOLEAN :
        /\ posts \in ScriptStores(ScriptBody(withImage)) \cup {EmptyMap}
        /\ gLocaleOf = WrittenFor(posts, OriginalSlug)

ScriptNext ==
    \/ ScriptStart
    \/ \E kind \in {"json", "empty", "badjson", "throw"} : ScriptTranslated(kind)

\* One run of the translation script.
SpecScript == ScriptSpecInit /\ [][ScriptNext]_vars

(***************************************************************************)
(* The store written through savePost and read through blog.ts.            *)
(***************************************************************************)
\* A BlogPost: its title names it, tags and publishedAt are given, and
\* originalSlug is undefined for a canonical post.
BlogPost(title, slug, tags, publishedAt, originalSlug) ==
    [k \in {"title", "slug", "content", "metaDescription", "tags", "publishedAt",
            "updatedAt", "originalSlug"} |->
        CASE k = "title" -> JStr(title)
          [] k = "slug" -> JStr(slug)
          [] k = "tags" -> JArr(tags)
          [] k = "publishedAt" -> JStr(ToISOString(publishedAt))
          [] k = "updatedAt" -> JStr(ToISOString(publishedAt))
          [] k = "originalSlug" -> originalSlug
          [] OTHER -> JStr(<<"d">>)]

\* The posts saved: two contents for slug "a", a post "b" that is canonical
\* or a variant of "a", and a variant "c" of "a".
StorePosts ==
    {BlogPost(<<"A">>, <<"a">>, <<JStr(<<"x">>)>>, 1, UNDEF),
     BlogPost(<<"A", "2">>, <<"a">>, <<JStr(<<"x">>), JStr(<<"y">>)>>, 2, UNDEF),
     BlogPost(<<"B">>, <<"b">>, <<JStr(<<"y">>)>>, 3, UNDEF),
     BlogPost(<<"B", "v">>, <<"b">>, <<JStr(<<"y">>)>>, 3, JStr(<<"a">>)),
     BlogPost(<<"C">>, <<"c">>, <<>>, 0, JStr(<<"a">>))}

\* The mapping files the store is read under.
StoreMappings ==
    {EmptyMap,
     MapSet(EmptyMap, <<"a">>, MapSet(EmptyMap, "en", <<"c">>)),
     MapSet(EmptyMap, <<"a">>, MapSet(MapSet(EmptyMap, "en", <<"b">>), "de", <<"b">>)),
     MapSet(EmptyMap, <<"b">>, MapSet(EmptyMap, "de", <<"a">>))}

\* await savePost(post)
SavePost(post) ==
    /\ posts' = savePost(posts, post)
    /\ gLocaleOf' = MapSet(gLocaleOf, post["slug"].v,
                           IF Truthy(post["originalSlug"]) THEN "en" ELSE "de")
    /\ call' = [fn |-> "savePost", arg |-> post, out |-> <<>>]
    /\ UNCHANGED <<rateVars, mappingFile, pipeVars, scriptVars>>

StoreSpecInit ==
    /\ RateInit /\ PipeInit /\ ScriptInit /\ LibInit
    /\ \A k \in DOMAIN env : env[k] = JStr(SecretToken)
    /\ posts = EmptyMap
    /\ gLocaleOf = EmptyMap
    /\ mappingFile \in StoreMappings

\* savePost(post) cut short: the process ends inside writeFileSync (blog.ts
\* 209) and the file is left holding the beginning of the JSON text.
SavePostTorn(post) ==
    /\ posts' = MapSet(posts, post["slug"].v, Unparsable)
    /\ gLocaleOf' = MapSet(gLocaleOf, post["slug"].v,
                           IF Truthy(post["originalSlug"]) THEN "en" ELSE "de")
    /\ call' = [fn |-> "savePostTorn", arg |-> post, out |-> <<>>]
    /\ UNCHANGED <<rateVars, mappingFile, pipeVars, scriptVars>>

StoreNext ==
    \/ \E post \in StorePosts : SavePost(post)
    \/ \E post \in StorePosts : SavePostTorn(post)

\* Posts saved one after the other, under any of the mapping files.
SpecStore == StoreSpecInit /\ [][StoreNext]_vars

(***************************************************************************)
(* generateSlug applied to titles, and to its own results.                 *)
(***************************************************************************)
\* The characters of the short titles: a letter, a hyphen, a blank, an
\* umlaut and a character that is dropped.
TitleChars == {"a", "-", " ", "Ä", "?"}

\* The titles of at most n characters.
RECURSIVE TitlesUpTo(_)
TitlesUpTo(n) ==
    IF n = 0 THEN {<<>>}
    ELSE TitlesUpTo(n - 1)
         \cup {t \o <<c>> : t \in {u \in TitlesUpTo(n - 1) : Len(u) = n - 1},
                               c \in TitleChars}

\* n letters, then a second word: "aaa...a b".
LongTitle(n) == [i \in 1..n |-> "a"] \o <<" ", "b">>

\* The titles slugs are made of: the short ones, and those whose slug is as
\* long as the limit, give or take a few characters.
Titles ==
    TitlesUpTo(MaxTitleLen)
    \cup {LongTitle(n) : n \in (SlugMaxLen - 4)..(SlugMaxLen + 1)}

\* slug = generateSlug(title)
Slugify(title) ==
    /\ call' = [fn |-> "generateSlug", arg |-> title, out |-> generateSlug(title)]
    /\ UNCHANGED <<rateVars, storeVars, pipeVars, scriptVars>>

\* generateSlug(slug): the result of the last call goes in again, as
\* validatePayload does with a slug it was given (route.ts 173).
SlugifyAgain ==
    /\ call.fn = "generateSlug"
    /\ call' = [fn |-> "generateSlug", arg |-> call.out, out |-> generateSlug(call.out)]
    /\ UNCHANGED <<rateVars, storeVars, pipeVars, scriptVars>>

SlugNext ==
    \/ \E title \in Titles : Slugify(title)
    \/ SlugifyAgain

SlugSpecInit ==
    /\ Init
    /\ \A k \in DOMAIN env : env[k] = JStr(SecretToken)

SpecSlug == SlugSpecInit /\ [][SlugNext]_vars

(***************************************************************************)
(* validatePayload applied to payloads.                                    *)
(***************************************************************************)
\* n characters of text in a paragraph: "<p>xxx...x</p>".
Paragraph(n) == <<"<", "p", ">">> \o [i \in 1..n |-> "x"] \o <<"<", "/", "p", ">">>

\* The seoMetadata objects: with metaDescription, with description, with
\* both.
SeoObjects ==
    {JObj([k \in ks |-> IF k = "metaDescription" THEN JStr(<<"s">>) ELSE JStr(<<"e">>)]) :
        ks \in {{"metaDescription"}, {"description"}, {"metaDescription", "description"}}}

\* Payloads with a title and a content of 1, 160 or 161 characters of text,
\* and any of metaDescription, seoMetadata and description.
MetaBodies ==
    {JObj([k \in {"title", "content"} \cup ks |->
            CASE k = "title" -> PostA.v["title"]
              [] k = "content" -> JStr(Paragraph(n))
              [] k = "metaDescription" -> JStr(<<"m">>)
              [] k = "seoMetadata" -> seo
              [] OTHER -> JStr(<<"g">>)]) :
        ks \in SUBSET {"metaDescription", "seoMetadata", "description"},
        seo \in SeoObjects, n \in {1, 160, 161}}

\* PostA with a slug: any short string, or one as long as the limit.
SlugBodies == {WithField(PostA, "slug", JStr(slug)) : slug \in Titles \ {<<>>}}

\* validatePayload(body)
Validate(body) ==
    /\ call = NoCall
    /\ call' = [fn |-> "validatePayload", arg |-> body, out |-> validatePayload(body)]
    /\ UNCHANGED <<rateVars, storeVars, pipeVars, scriptVars>>

ValidateNext ==
    \/ \E body \in MetaBodies : Validate(body)
    \/ \E body \in SlugBodies : Validate(body)

SpecValidate == SlugSpecInit /\ [][ValidateNext]_vars

(***************************************************************************)
(* The properties.                                                         *)
(***************************************************************************)
\* C1: for each client, of the requests made inside one window (the window
\* opens with the first request made when none is open, and lasts
\* RATE_LIMIT_WINDOW) the first RATE_LIMIT are admitted and every later one
\* is rejected; the first request after the window's end is admitted and
\* opens a window with count 1.  gSeen and gAdmitted count what the client
\* did and got, so admitted = min(seen, RATE_LIMIT) at every moment says
\* which requests were admitted.
C1_RateWindow ==
    \A c \in Clients :
        IF gWinStart[c] = -1
        THEN c \notin DOMAIN rateLimitMap /\ gSeen[c] = 0
        ELSE /\ gAdmitted[c] = Min(gSeen[c], RATE_LIMIT)
             /\ c \in DOMAIN rateLimitMap
             /\ rateLimitMap[c].count = gAdmitted[c]
             /\ rateLimitMap[c].resetTime = gWinStart[c] + RATE_LIMIT_WINDOW
             /\ (gSeen[c] = 1 => rateLimitMap[c].count = 1)

\* C1's case: a client whose previous window saw rejections is, in a later
\* window, again past its tenth request.
C1_Witness ==
    \E c \in Clients :
        gPrevFull[c] /\ gSeen[c] > RATE_LIMIT /\ gAdmitted[c] = RATE_LIMIT

\* The request of handler h carries the configured secret as bearer token.
BearerOk(h) ==
    /\ Truthy(env.WEBHOOK_SECRET)
    /\ req[h].auth = JStr(LitBearer \o env.WEBHOOK_SECRET.v)

\* The request of handler h declares no length, or one of at most 5 MiB.
SizeOk(h) == req[h].len = JNull \/ DecVal(req[h].len.v) <= 5 * 1024 * 1024

\* The body of the request of handler h parsed, is no test ping and is a
\* valid payload.
BodyOk(h) ==
    /\ req[h].body \notin {UNDEF, Malformed, JNull}
    /\ ~IsTestPing(req[h].body)
    /\ validatePayload(req[h].body).valid

\* The request of handler h called the store or the translator, or
\* invalidated a path.
DidWork(h) ==
    \/ eff[h].calls # {} \/ eff[h].wrote # {}
    \/ eff[h].translated # {} \/ eff[h].revalidated # {}

\* C2: a request that called the content store, called the translator or
\* invalidated a path was admitted by the rate limiter, carried the secret,
\* passed the size check, and its body parsed, was no test ping and was
\* valid; a body {test: true} is answered 200 with the test message and the
\* request does none of these things.
C2_NoWorkBeforeChecks ==
    \A h \in Handlers :
        /\ DidWork(h) =>
              "rate" \in eff[h].passed /\ BearerOk(h) /\ SizeOk(h) /\ BodyOk(h)
        /\ (pc[h] = "responded" /\ req[h].body = TestPing) =>
              /\ resp[h] = Response(200, TRUE, Msg.testPing, <<>>)
              /\ ~DidWork(h)

\* C2's case: a test ping was answered.
C2_Witness ==
    \E h \in Handlers :
        pc[h] = "responded" /\ req[h].body = TestPing /\ resp[h].status = 200

\* The Authorization header is missing, carries no bearer token, or a token
\* that is not the secret.
BadAuthorization(auth, secret) ==
    \/ auth = JNull
    \/ Len(auth.v) < 7
    \/ SubSeq(auth.v, 1, 7) # LitBearer
    \/ SubSeq(auth.v, 8, Len(auth.v)) # secret.v

\* C3: with the secret configured, a request whose Authorization header is
\* missing, malformed or wrong is answered 401 or 403 (never 429) and leaves
\* the rate limiter's record as it was.
C3_AuthBeforeRate ==
    [][\A h \in Handlers :
          (/\ pc[h] = "idle" /\ pc'[h] = "responded"
           /\ Truthy(env.WEBHOOK_SECRET)
           /\ BadAuthorization(req'[h].auth, env.WEBHOOK_SECRET))
          => (resp'[h].status \in {401, 403} /\ rateLimitMap' = rateLimitMap)]_vars

\* The status the first failing header check of C4 gives the request of
\* handler h, 0 when it passes them all.
ExpectedHeaderStatus(h) ==
    CASE ~Truthy(env.WEBHOOK_SECRET) -> 500
      [] req[h].auth = JNull \/ Len(req[h].auth.v) < 7
            \/ SubSeq(req[h].auth.v, 1, 7) # LitBearer -> 401
      [] SubSeq(req[h].auth.v, 8, Len(req[h].auth.v)) # env.WEBHOOK_SECRET.v -> 403
      [] req[h].len # JNull /\ DecVal(req[h].len.v) > 5 * 1024 * 1024 -> 413
      [] OTHER -> 0

\* C4: a request the rate limiter admitted is answered by the first check
\* that fails, in the order: no secret configured 500, no bearer header 401,
\* wrong token 403 "Invalid authentication token", declared length above
\* 5 MiB 413; a length of exactly 5 MiB, or none, passes the size check.
C4_FirstFailingCheck ==
    \A h \in Handlers :
        (pc[h] \notin {"idle", "off"} /\ "rate" \in eff[h].passed) =>
            IF ExpectedHeaderStatus(h) # 0
            THEN /\ pc[h] = "responded"
                 /\ resp[h].status = ExpectedHeaderStatus(h)
                 /\ ~resp[h].success
                 /\ ExpectedHeaderStatus(h) = 500 => resp[h].text = "Server configuration error"
                 /\ ExpectedHeaderStatus(h) = 403 =>
                        resp[h].text = "Invalid authentication token"
            ELSE /\ "size" \in eff[h].passed
                 /\ resp[h].status \notin {401, 403, 413}
                 /\ resp[h].text # "Server configuration error"

\* C4's case: a wrong token with a length above the limit is answered 403,
\* the earlier check.
C4_Witness ==
    \E h \in Handlers :
        /\ req[h].auth = JStr(LitBearer \o <<"x">>)
        /\ req[h].len = JStr(DecStr(MaxPayload + 1))
        /\ resp[h].status = 403

\* The calls of savePostToGitHub for the canonical post that failed.
CanonicalFailures(h) == {s \in eff[h].saves : s.target = "de" /\ s.kind # "ok"}

\* The error savePostToGitHub reports for a failed call.
StoreErrorDetail(s) ==
    CASE s.kind = "notoken" -> "GitHub token not configured"
      [] s.kind = "notok" -> "GitHub API error: " \o s.msg
      [] OTHER -> "Failed to commit to GitHub"

\* C5: when the save of the canonical post fails, the request is answered
\* 500 with the store's error and neither translates, nor writes a variant,
\* nor invalidates a path; a 200 for a post payload is sent only after the
\* canonical post was written.
C5_CanonicalSaveFailure ==
    \A h \in Handlers :
        /\ \A s \in CanonicalFailures(h) :
              /\ pc[h] = "responded"
              /\ resp[h] = Response(500, FALSE, StoreErrorDetail(s), <<>>)
              /\ eff[h].translated = {} /\ eff[h].revalidated = {} /\ eff[h].wrote = {}
              /\ \A c \in eff[h].calls : c.slug = loc[h].slug
        /\ (pc[h] = "responded" /\ resp[h].status = 200 /\ ~IsTestPing(req[h].body)) =>
              /\ [target |-> "de", kind |-> "ok", msg |-> ""] \in eff[h].saves
              /\ loc[h].slug \in eff[h].wrote
              /\ loc[h].slug \in DOMAIN posts

\* C5's case: the content API rejected the PUT of the canonical post.
C5_Witness ==
    \E h \in Handlers :
        pc[h] = "responded" /\ \E s \in CanonicalFailures(h) : s.kind = "notok"

\* The canonical post of the request of handler h is in the store as written.
CanonicalPersisted(h) ==
    /\ loc[h].slug \in DOMAIN posts
    /\ posts[loc[h].slug] = Stringify(JObj(loc[h].post))

\* C6: translatePost returns null for every failure of its call; once the
\* canonical post is written, whatever fails for en and fr, the canonical
\* record stays in the store, both locales are attempted and the request is
\* answered 200 for the canonical post.
C6_TranslationAbsorbed ==
    /\ \A kind \in {"throw", "notok", "empty", "badjson"} :
            translatePost(kind, JNull) = JNull
    /\ \A h \in Handlers :
        [target |-> "de", kind |-> "ok", msg |-> ""] \in eff[h].saves =>
            /\ CanonicalPersisted(h)
            /\ pc[h] \in {"tr_fetch", "gh_get", "gh_put", "responded"}
            /\ pc[h] = "responded" =>
                  /\ resp[h] = Response(200, TRUE, Msg.created,
                                        <<"/", "b", "l", "o", "g", "/">> \o loc[h].slug)
                  /\ Truthy(env.OPENAI_API_KEY) => eff[h].translated = {"en", "fr"}

\* C6's case: the write of the en variant failed, no fr variant was written,
\* and the request was answered.
C6_Witness ==
    \E h \in Handlers :
        /\ pc[h] = "responded" /\ resp[h].status = 200
        /\ eff[h].translated = {"en", "fr"}
        /\ \E s \in eff[h].saves : s.target = "en" /\ s.kind # "ok"
        /\ eff[h].wrote = {loc[h].slug}

\* The paths C7 names for the slug s.
InvalidatedFor(s) ==
    {<<"/", "b", "l", "o", "g">>,
     <<"/", "b", "l", "o", "g", "/">> \o s,
     <<"/", "d", "e", "/", "b", "l", "o", "g">>,
     <<"/", "e", "n", "/", "b", "l", "o", "g">>,
     <<"/", "f", "r", "/", "b", "l", "o", "g">>,
     <<"/", "d", "e", "/", "b", "l", "o", "g", "/">> \o s,
     <<"/", "e", "n", "/", "b", "l", "o", "g", "/">> \o s,
     <<"/", "f", "r", "/", "b", "l", "o", "g", "/">> \o s,
     <<"/", "e", "n", "/", "b", "l", "o", "g", "/">> \o s \o <<"-", "e", "n">>,
     <<"/", "f", "r", "/", "b", "l", "o", "g", "/">> \o s \o <<"-", "f", "r">>}

\* The request of handler h is answered with the success response of a post.
AnsweredCreated(h) ==
    pc[h] = "responded" /\ resp[h].status = 200 /\ ~IsTestPing(req[h].body)

\* C7: a request answered with the success response for slug s invalidated
\* /blog, /blog/s, /L/blog and /L/blog/s for L in de, en, fr, /en/blog/s-en
\* and /fr/blog/s-fr, whatever became of the translations; no other request
\* invalidates anything.
C7_Invalidation ==
    \A h \in Handlers :
        IF AnsweredCreated(h)
        THEN eff[h].revalidated = InvalidatedFor(loc[h].slug)
        ELSE eff[h].revalidated = {}

\* C7's case: a post was answered 200 though both translations failed.
C7_Witness ==
    \E h \in Handlers :
        /\ AnsweredCreated(h)
        /\ eff[h].translated = {"en", "fr"}
        /\ eff[h].wrote = {loc[h].slug}
        /\ Cardinality(eff[h].revalidated) = 10

\* The Post invariants: a slug of the slug format, and title, content and
\* metaDescription non-empty strings.
PostInvariants(post) ==
    /\ IsString(Get(post, "slug")) /\ SlugRegexTest(Get(post, "slug").v)
    /\ \A k \in {"title", "content", "metaDescription"} :
            IsString(Get(post, k)) /\ Get(post, k).v # <<>>

\* C8: every record in the store satisfies the Post invariants.
C8_StoredPostsValid ==
    \A f \in DOMAIN posts : PostInvariants(posts[f])

\* The record r is in the store as a record written for locale l.
BelongsTo(r, l) == \E f \in DOMAIN posts : posts[f] = r /\ gLocaleOf[f] = l

\* C9: with no run of the script under way, getPostBySlug(slug, L) for a
\* locale L other than de returns null or a record written for L, and for
\* de returns null or a record without originalSlug.
C9_GetBySlugLocale ==
    scriptPc \in {"ready", "done", "failed"} =>
        \A slug \in DOMAIN posts, l \in Locales :
            getPostBySlug(posts, mappingFile, slug, l) # JNull =>
                IF l = "de"
                THEN ~Truthy(Get(getPostBySlug(posts, mappingFile, slug, l), "originalSlug"))
                ELSE BelongsTo(getPostBySlug(posts, mappingFile, slug, l), l)

\* The orders in which readdirSync may list the files S.
DirectoryOrders(S) ==
    {o \in [1..Cardinality(S) -> S] :
        \A i, j \in 1..Cardinality(S) : i # j => o[i] # o[j]}

\* list holds exactly the records written for locale l, the most recently
\* published first.
IsListOf(list, l) ==
    /\ {list[i] : i \in 1..Len(list)} = {posts[f] : f \in {g \in DOMAIN posts : gLocaleOf[g] = l}}
    /\ Len(list) = Cardinality({g \in DOMAIN posts : gLocaleOf[g] = l})
    /\ \A i \in 1..(Len(list) - 1) : PublishedTime(list[i]) >= PublishedTime(list[i + 1])

\* C10: with no request under way, getAllPosts(L) is the list of exactly
\* the records written for locale L, sorted by publishedAt descending; the
\* variants the webhook wrote are in the lists of en and fr and not of de.
C10_ListByLocale ==
    (\A h \in Handlers : pc[h] \in {"idle", "responded", "off"}) =>
        \A l \in Locales, files \in DirectoryOrders(DOMAIN posts) :
            IsListOf(getAllPosts(posts, mappingFile, files, l), l)

\* C11: after savePost(p) of a post p without originalSlug, getPostBySlug
\* (p.slug, "de") returns p's properties, whatever else the store and the
\* mapping file hold; and saving p again leaves the store as it is.
C11_PutGet ==
    (call.fn = "savePost" /\ ~Truthy(call.arg["originalSlug"])) =>
        /\ getPostBySlug(posts, mappingFile, call.arg["slug"].v, "de")
                = Stringify(JObj(call.arg))
        /\ savePost(posts, call.arg) = posts
\* A canonical post was saved over another content of its slug, next to a
\* variant, under a mapping file that names its slug.
C11_Witness ==
    /\ call.fn = "savePost"
    /\ call.arg["title"] = JStr(<<"A", "2">>)
    /\ DOMAIN posts = {<<"a">>, <<"b">>, <<"c">>}
    /\ <<"a">> \in DOMAIN mappingFile

\* C12: when the PUT of savePostToGitHub is sent for an object that exists
\* in the store, it carries the object's current revision marker.
C12_WriteCarriesMarker ==
    \A h \in Handlers :
        (pc[h] = "gh_put" /\ loc[h].file \in DOMAIN posts) =>
            loc[h].sha = Sha(posts[loc[h].file])

\* The required properties, in the order they are checked.
RequiredOrder == <<"title", "content", "slug", "metaDescription">>

\* The required properties that are no non-empty string in n, by index.
MissingIn(n) ==
    {i \in 1..4 : ~(RequiredOrder[i] \in DOMAIN n
                    /\ n[RequiredOrder[i]].t = "string"
                    /\ n[RequiredOrder[i]].v # <<>>)}

\* The reason given for a missing property.
MissingReason(k) ==
    "Missing or invalid required field: " \o k
        \o (IF k = "content" THEN " (or htmlContent/markdown)" ELSE "")

\* The body of the request of handler h parsed to an object that went into
\* the validation.
BodyValidatedObject(h) ==
    /\ req[h].body \notin {UNDEF, Malformed}
    /\ req[h].body.t = "object"
    /\ ~IsTestPing(req[h].body)

\* C13: a request whose body, once normalized, lacks a required property
\* (or holds something that is no non-empty string there) is answered 400
\* with the reason that names the first such property in the order title,
\* content, slug, metaDescription; a body whose four properties are
\* non-empty strings after normalization is never answered with a
\* missing-field reason.
C13_FirstMissingField ==
    \A h \in Handlers :
        (pc[h] = "responded" /\ BodyValidatedObject(h)) =>
            LET missing == MissingIn(normalizePayload(req[h].body)) IN
            IF missing # {}
            THEN resp[h] = Response(400, FALSE,
                                    MissingReason(RequiredOrder[
                                        CHOOSE i \in missing : \A j \in missing : i <= j]),
                                    <<>>)
            ELSE resp[h].text \notin {MissingReason(RequiredOrder[i]) : i \in 1..4}
\* C13's case: a body that lacks the content and the slug was answered.
C13_Witness ==
    \E h \in Handlers :
        /\ pc[h] = "responded" /\ req[h].body = PostNoContent
        /\ resp[h].status = 400

\* The request of handler h was admitted and authenticated, and its body is
\* malformed JSON or no valid payload.
BadBody(h) ==
    /\ {"rate", "auth", "size"} \subseteq eff[h].passed
    /\ req[h].body # UNDEF
    /\ \/ req[h].body = Malformed
       \/ (~IsTestPing(req[h].body) /\ ~validatePayload(req[h].body).valid)

\* C14: an admitted, authenticated request whose body is malformed JSON, or
\* JSON that is no valid payload, is answered 400.
C14_BadBodyIs400 ==
    \A h \in Handlers :
        (pc[h] = "responded" /\ BadBody(h)) => resp[h].status = 400

\* C15: the test-ping answer is given only to a body with a truthy test
\* flag and neither title nor content.
C15_TestPingOnly ==
    \A h \in Handlers :
        (pc[h] = "responded" /\ resp[h].text = Msg.testPing) =>
            /\ Truthy(Get(req[h].body, "test"))
            /\ ~Truthy(Get(req[h].body, "title"))
            /\ ~Truthy(Get(req[h].body, "content"))

\* C16: every request the rate limiter admitted is eventually answered,
\* also when the content API or the translation provider never answers a
\* call.
C16_EventuallyAnswered ==
    \A h \in Handlers : ("rate" \in eff[h].passed) ~> (pc[h] = "responded")

\* The request of handler h was admitted and is being served.
InFlight(h) ==
    "rate" \in eff[h].passed /\ pc[h] \in {"parse", "gh_get", "gh_put", "tr_fetch"}

\* C17: with two handlers interleaving at their awaits, a client is
\* admitted at most RATE_LIMIT times per window and rejected only when its
\* window is full: the limiter's record counts every admission, and a
\* request answered 429 was not admitted.
C17_AtomicAdmission ==
    /\ \A c \in PostClients :
        /\ gAdmitted[c] <= RATE_LIMIT
        /\ gSeen[c] > gAdmitted[c] => gAdmitted[c] = RATE_LIMIT
        /\ c \in DOMAIN rateLimitMap => rateLimitMap[c].count = gAdmitted[c]
    /\ \A h \in Handlers : resp[h].status = 429 => "rate" \notin eff[h].passed
\* C17's case: the window's last slot went to one handler, which is still
\* being served while the other handler's request was rejected.
C17_Witness ==
    \E h, g \in Handlers :
        /\ h # g /\ InFlight(h) /\ pc[g] = "responded" /\ resp[g].status = 429
        /\ gAdmitted[req[h].ip] = RATE_LIMIT /\ gSeen[req[h].ip] = RATE_LIMIT + 1

\* C18: generateSlug applied to a result of generateSlug returns it
\* unchanged, also when the result was cut at 60 characters.
C18_SlugIdempotent ==
    call.fn = "generateSlug" => generateSlug(call.out) = call.out

\* C19: a result of generateSlug is empty or consists of runs of lowercase
\* letters and digits separated by single hyphens, and is at most 60
\* characters long.
C19_SlugShape ==
    call.fn = "generateSlug" =>
        /\ Len(call.out) <= 60
        /\ \/ call.out = <<>>
           \/ /\ \A i \in 1..Len(call.out) : call.out[i] \in LowerAlnum \cup {"-"}
              /\ call.out[1] # "-" /\ call.out[Len(call.out)] # "-"
              /\ \A i \in 1..(Len(call.out) - 1) :
                    ~(call.out[i] = "-" /\ call.out[i + 1] = "-")

\* The tag lists related posts are asked for.
RelatedTags == {<<>>, <<JStr(<<"x">>)>>, <<JStr(<<"x">>), JStr(<<"y">>)>>}

\* The number of tags the post shares with tags.
Overlap(post, tags) ==
    Cardinality({i \in 1..Len(tags) :
                    /\ Get(post, "tags").t = "array"
                    /\ \E j \in 1..Len(Get(post, "tags").v) : Get(post, "tags").v[j] = tags[i]})

\* The file f holds a variant of the post slug: it names slug as its
\* original, or it is named as the webhook names the variants of slug.
VariantOfSlug(f, slug) ==
    /\ gLocaleOf[f] # "de"
    /\ \/ Get(posts[f], "originalSlug") = JStr(slug)
       \/ f = slug \o <<"-">> \o LocaleCode(gLocaleOf[f])

\* The files of the records written for locale l that are neither the post
\* slug nor a variant of it.
Eligible(slug, l) ==
    {f \in DOMAIN posts :
        /\ gLocaleOf[f] = l
        /\ Get(posts[f], "slug") # JStr(slug)
        /\ ~VariantOfSlug(f, slug)}

\* Post a is to be listed no later than post b.
RanksBefore(a, b, tags) ==
    \/ Overlap(a, tags) > Overlap(b, tags)
    \/ Overlap(a, tags) = Overlap(b, tags) /\ PublishedTime(a) >= PublishedTime(b)

\* r is what the claim describes for (slug, tags, limit, l).
IsRelatedList(r, slug, tags, limit, l) ==
    /\ Len(r) = Min(limit, Cardinality(Eligible(slug, l)))
    /\ \A i \in 1..Len(r) : \E f \in Eligible(slug, l) : posts[f] = r[i]
    /\ \A i, j \in 1..Len(r) : i < j => r[i] # r[j] /\ RanksBefore(r[i], r[j], tags)
    /\ \A f \in Eligible(slug, l) :
            (\A i \in 1..Len(r) : r[i] # posts[f]) =>
                \A i \in 1..Len(r) : RanksBefore(r[i], posts[f], tags)

\* C20: with no request under way, getRelatedPosts(slug, tags, limit, L)
\* returns at most limit records, all written for locale L, none of them
\* the post slug or a variant of it; they are the ones that share the most
\* tags with tags, the more recent first among equals (the most recent
\* ones when tags is empty).
C20_RelatedPosts ==
    (\A h \in Handlers : pc[h] \in {"idle", "responded", "off"}) =>
        \A slug \in DOMAIN posts, tags \in RelatedTags, limit \in 1..3, l \in Locales,
           files \in DirectoryOrders(DOMAIN posts) :
            IsRelatedList(getRelatedPosts(posts, mappingFile, files, slug, tags, limit, l),
                          slug, tags, limit, l)

\* The files of the store that parse.
ReadableFiles == {f \in DOMAIN posts : posts[f] # Unparsable}

\* The store without the files that do not parse.
ReadableStore == [f \in ReadableFiles |-> posts[f]]

\* C21: getAllPosts(L) returns what it would return if the files that do
\* not parse were not in the directory: every readable post of the locale,
\* in the same order.
C21_ListSkipsBadRecord ==
    \A l \in Locales, files \in DirectoryOrders(DOMAIN posts) :
        getAllPosts(posts, mappingFile, files, l)
            = getAllPosts(ReadableStore, mappingFile,
                          SelectSeq(files, LAMBDA f : f \in ReadableFiles), l)

\* The record an ingestion of payload at time t is to leave: the four
\* required properties, the image and the author if the payload holds
\* them, the payload's tags or [], its date of publication or t, and t as
\* the time of the update.
IngestedRecord(payload, t) ==
    JObj([k \in {"title", "slug", "content", "metaDescription", "tags", "publishedAt",
                 "updatedAt"}
                \cup ({"featuredImage", "author"} \cap DOMAIN payload) |->
            CASE k = "tags" -> IF "tags" \in DOMAIN payload THEN payload[k] ELSE JArr(<<>>)
              [] k = "publishedAt" ->
                    IF "publishedAt" \in DOMAIN payload THEN payload[k]
                    ELSE JStr(<<"T">> \o DecStr(t))
              [] k = "updatedAt" -> JStr(<<"T">> \o DecStr(t))
              [] OTHER -> payload[k]])

\* C22: when a request is answered 200 for a post, the canonical record
\* stored under its slug is exactly the record made of this request's
\* payload at the time it was ingested, whatever the store held under the
\* slug before: no property of an earlier version is kept.
C22_FullOverwrite ==
    \A h \in Handlers :
        (pc[h] = "responded" /\ resp[h].status = 200 /\ ~IsTestPing(req[h].body)) =>
            posts[loc[h].slug]
                = IngestedRecord(validatePayload(req[h].body).payload, req[h].at)
\* C22's case: the post without optional properties was ingested, at a
\* later time, over a version that held all of them.
C22_Witness ==
    \E h \in Handlers :
        /\ pc[h] = "responded" /\ resp[h].status = 200 /\ req[h].body = PostA
        /\ req[h].at > 0
        /\ loc[h].sha.t = "sha"
        /\ "featuredImage" \in DOMAIN loc[h].sha.v.v
        /\ posts[loc[h].slug].v["tags"] = JArr(<<>>)

\* C23: a request answered 200 for a post whose translation was skipped
\* (no translator key is set) carries another message than the one given
\* when the translation was attempted, which is Msg.created.
C23_MessageTellsTranslation ==
    \A h \in Handlers :
        (pc[h] = "responded" /\ resp[h].status = 200 /\ ~IsTestPing(req[h].body)) =>
            IF Truthy(env.OPENAI_API_KEY)
            THEN resp[h].text = Msg.created
            ELSE resp[h].text # Msg.created

\* C24: once main() is over, whether it ended or was rejected, every
\* variant of the original post that it holds in its mapping and that is in
\* the store is in the persisted mapping file under its locale.
C24_MappingExtended ==
    scriptPc \in {"done", "failed"} =>
        \A f \in DOMAIN posts :
            (/\ Get(posts[f], "originalSlug") = JStr(OriginalSlug)
             /\ f # <<>>
             /\ MappedSlug(slugMapping, OriginalSlug, gLocaleOf[f]) = f) =>
                MappedSlug(mappingFile, OriginalSlug, gLocaleOf[f]) = f

\* s consists of runs of lowercase letters and digits separated by single
\* hyphens.
MatchesSlugPattern(s) ==
    /\ s # <<>>
    /\ \A i \in 1..Len(s) :
        IF s[i] = "-" THEN 1 < i /\ i < Len(s) /\ s[i + 1] # "-"
        ELSE s[i] \in LowerAlnum

\* C25: a slug that matches the pattern is kept; one that does not is
\* slugified once, and the payload is accepted with the result if the
\* result is not empty and matches, and refused with the slug-format
\* reason otherwise.
C25_OneRepair ==
    (call.fn = "validatePayload" /\ "slug" \in DOMAIN call.arg.v) =>
        LET slug == call.arg.v["slug"].v
            fixed == generateSlug(slug)
        IN  IF MatchesSlugPattern(slug)
            THEN call.out.valid /\ call.out.payload["slug"] = JStr(slug)
            ELSE IF fixed # <<>> /\ MatchesSlugPattern(fixed)
            THEN call.out.valid /\ call.out.payload["slug"] = JStr(fixed)
            ELSE call.out = [valid |-> FALSE,
                             error |-> "Invalid slug format: must be lowercase with hyphens"]
\* C25's case: the repair of a slug left a slug that does not match, which
\* a second repair would have made match, and the payload was refused.
C25_Witness ==
    /\ call.fn = "validatePayload" /\ "slug" \in DOMAIN call.arg.v
    /\ ~call.out.valid
    /\ generateSlug(call.arg.v["slug"].v) # <<>>
    /\ MatchesSlugPattern(generateSlug(generateSlug(call.arg.v["slug"].v)))

\* x is present: neither undefined, null nor the empty string.
Present(x) == x.t \notin {"undefined", "null"} /\ x # JStr(<<>>)

\* The positions of the text of an HTML content: those outside every
\* tag, a tag being a "<" and everything up to the first ">" after it.
TextPositions(s) ==
    {i \in 1..Len(s) :
        LET after == {k \in i..Len(s) : s[k] = ">"}
            before == {k \in 1..(i - 1) : s[k] = ">"}
            from == IF before = {} THEN 1 ELSE 1 + CHOOSE k \in before : \A m \in before : m <= k
        IN  after = {} \/ \A j \in from..i : s[j] # "<"}

\* The text of an HTML content, the blanks at its ends removed.
TextOf(s) ==
    LET at == TextPositions(s)
        text == [n \in 1..Cardinality(at) |->
                    s[CHOOSE i \in at : Cardinality({j \in at : j <= i}) = n]]
        inner == {n \in DOMAIN text : text[n] \notin WhiteSpace}
    IN  [n \in 1..Cardinality({m \in DOMAIN text :
                    \E x, y \in inner : x <= m /\ m <= y}) |->
            text[n - 1 + CHOOSE x \in inner : \A y \in inner : x <= y]]

\* The description made of a content: its first 160 characters of text,
\* and an ellipsis if there are more.
Synthesized(content) ==
    IF Len(TextOf(content)) > 160
    THEN SubSeq(TextOf(content), 1, 160) \o <<".", ".", ".">>
    ELSE TextOf(content)

\* The metaDescription the claim gives a payload.
ExpectedMeta(body) ==
    LET seo == IF "seoMetadata" \in DOMAIN body.v THEN body.v["seoMetadata"] ELSE JObj(<<>>)
        of(obj, k) == IF k \in DOMAIN obj.v THEN obj.v[k] ELSE UNDEF
    IN  CASE Present(of(body, "metaDescription")) -> of(body, "metaDescription")
          [] Present(of(seo, "metaDescription")) -> of(seo, "metaDescription")
          [] Present(of(seo, "description")) -> of(seo, "description")
          [] Present(of(body, "description")) -> of(body, "description")
          [] OTHER -> JStr(Synthesized(body.v["content"].v))

\* C26: the metaDescription of an accepted payload is its own
\* metaDescription if it has one, else the first present of
\* seoMetadata.metaDescription, seoMetadata.description and description,
\* else the first 160 characters of the content's text, with an ellipsis
\* if and only if the text is longer.
C26_MetaDescription ==
    (call.fn = "validatePayload" /\ call.out.valid) =>
        call.out.payload["metaDescription"] = ExpectedMeta(call.arg)

\* Client c made a request in this step.
Requested(c) == gSeen'[c] # gSeen[c] \/ gWinStart'[c] # gWinStart[c]

\* The request client c made in this step was rejected.
Rejected(c) ==
    /\ Requested(c)
    /\ gAdmitted'[c] = (IF gWinStart'[c] = gWinStart[c] THEN gAdmitted[c] ELSE 0)

\* The record of client c is the same before and after this step.
SameRecord(c) ==
    /\ c \in DOMAIN rateLimitMap' <=> c \in DOMAIN rateLimitMap
    /\ c \in DOMAIN rateLimitMap => rateLimitMap'[c] = rateLimitMap[c]

\* C27: a call of checkRateLimit for a client leaves the record of every
\* other client as it was, a rejected call leaves every record as it was,
\* and the count of every stored record is at least 1 and at most
\* RATE_LIMIT.
C27_RateFrame ==
    /\ [](\A c \in DOMAIN rateLimitMap :
            1 <= rateLimitMap[c].count /\ rateLimitMap[c].count <= RATE_LIMIT)
    /\ [][/\ DOMAIN rateLimitMap' \subseteq Clients
          /\ \A c \in Clients : ~Requested(c) => SameRecord(c)
          /\ \A c \in Clients : Rejected(c) => rateLimitMap' = rateLimitMap]_vars
\* C27's case: a client was rejected, its record is at the limit, and
\* another client has a record of its own below the limit.
C27_Witness ==
    \E c, d \in Clients :
        /\ c # d /\ c \in DOMAIN rateLimitMap /\ d \in DOMAIN rateLimitMap
        /\ gSeen[c] > RATE_LIMIT /\ rateLimitMap[c].count = RATE_LIMIT
        /\ rateLimitMap[d].count < RATE_LIMIT

\* In this step the content API accepted the PUT of handler h.
PutDone(h) ==
    /\ pc[h] = "gh_put"
    /\ [target |-> loc[h].target, kind |-> "ok", msg |-> ""] \in eff'[h].saves \ eff[h].saves

\* C28: a variant is never written under the slug of a canonical post of
\* the store, which stays the canonical post it was, and never under a
\* slug its request has written before (the canonical post's, or the other
\* variant's).
C28_VariantSlugFree ==
    [][\A h \in Handlers :
        (PutDone(h) /\ loc[h].target # "de") =>
            /\ \A f \in DOMAIN posts : gLocaleOf[f] = "de" => gLocaleOf'[f] = "de"
            /\ loc[h].file \notin eff[h].wrote]_vars

\* Both requests are over, and both were answered 200 for the same slug.
BothIngested(slug) ==
    \A h \in Handlers :
        pc[h] = "responded" /\ resp[h].status = 200 /\ loc[h].slug = slug

\* The canonical record request h asked to store.
RecordOf(h) == IngestedRecord(validatePayload(req[h].body).payload, req[h].at)

\* The variants for locale l made of the post of request h: the post with
\* the title, content, metaDescription and tags of a translation of it, and
\* the suffixed slug.
VariantsOf(h, l) ==
    {JObj([k \in DOMAIN RecordOf(h).v |->
            CASE k = "slug" -> JStr(RecordOf(h).v["slug"].v \o <<"-">> \o LocaleCode(l))
              [] k \in {"title", "content", "metaDescription", "tags"} ->
                    IF k \in DOMAIN tr.v THEN tr.v[k] ELSE UNDEF
              [] OTHER -> RecordOf(h).v[k]]) :
        tr \in {v \in TranslationValues(PostData(validatePayload(req[h].body).payload,
                                                   req[h].at), l) : v.t = "object"}}

\* The record stored under slug s-l is a variant for l made by request h.
VariantFrom(h, slug, l) ==
    LET file == slug \o <<"-">> \o LocaleCode(l)
    IN  file \in DOMAIN posts => posts[file] \in {Stringify(v) : v \in VariantsOf(h, l)}

\* C29: once two concurrent ingestions of one slug are both over, the
\* canonical record is the record of one of the two requests, in full, and
\* the stored variants are translations of the post of that same request.
C29_OneWinner ==
    \A slug \in {loc[h].slug : h \in Handlers} :
        BothIngested(slug) =>
            \E h \in Handlers :
                /\ posts[slug] = RecordOf(h)
                /\ \A l \in {"en", "fr"} : VariantFrom(h, slug, l)
\* C29 as the code has it: once two concurrent ingestions of one slug are
\* both over, the canonical record is the record of one of the two
\* requests, in full, and each stored variant is, in full, a translation of
\* the post of one of the two requests, which need not be the request the
\* canonical record is of.
C29_EachRecordWhole ==
    \A slug \in {loc[h].slug : h \in Handlers} :
        BothIngested(slug) =>
            /\ \E h \in Handlers : posts[slug] = RecordOf(h)
            /\ \A l \in {"en", "fr"} : \E h \in Handlers : VariantFrom(h, slug, l)
\* C29's case: two requests with different posts for one slug are both
\* over, the canonical record is the second one's and the English variant
\* is a translation of the first one's post.
C29_Witness ==
    /\ BothIngested(loc["h1"].slug)
    /\ req["h1"].body # req["h2"].body
    /\ posts[loc["h2"].slug] = RecordOf("h2") /\ posts[loc["h2"].slug] # RecordOf("h1")
    /\ loc["h2"].slug \o <<"-", "e", "n">> \in DOMAIN posts
    /\ VariantFrom("h1", loc["h1"].slug, "en")
    /\ ~VariantFrom("h2", loc["h2"].slug, "en")

\* C30: every post page the listing page of a locale links to shows the
\* post of the locale's list it was linked for, which is the post
\* getPostBySlug gives for the locale; it is never not found.
C30_ListedPostsResolve ==
    scriptPc \in {"ready", "done", "failed"} =>
        \A l \in Locales, files \in DirectoryOrders(DOMAIN posts) :
            \A i \in 1..Len(getAllPosts(posts, mappingFile, files, l)) :
                LET p == getAllPosts(posts, mappingFile, files, l)[i]
                    slug == BlogPage(posts, mappingFile, files, l)[i]
                IN  /\ BlogPostPage(posts, mappingFile, l, slug) = [status |-> 200, post |-> p]
                    /\ getPostBySlug(posts, mappingFile, slug, l) = p

====
